---- MODULE Spec2Model ----
(***************************************************************************)
(* Model of the open-addressing hash table of extlib (src/libs/ext_map.c,  *)
(* lines 1-195): two parallel arrays (buckets with the cached hash, and    *)
(* entries with the record bytes), linear probing, tombstones, growth at   *)
(* 75% load.                                                               *)
(*                                                                         *)
(* A record is [key, val]: the user's hash and compare callbacks look at   *)
(* the key only, val is the payload.  The bytes of a slot whose bucket is  *)
(* EMPTY or TOMBSTONE are never read by the code (every read of the entry  *)
(* array is guarded by IS_VALID), so the model keeps Garbage there.        *)
(*                                                                         *)
(* Clients of the table: Spec (put, get, erase, clear; hash "mixed"),       *)
(* SpecInsert (put and get; hash "mixed"; more keys), SpecSame (put; hash  *)
(* "same", every key in one probe chain), SpecLoad (put, erase, clear;     *)
(* more keys) and SpecLow (hash "low", keys whose user hash is 0 or 1).    *)
(* The properties quantify over the calls a client can make from a state   *)
(* and compare the table before the call with the table the call returns.  *)
(*                                                                         *)
(* The vector (src/unnamed/part_002) is a header (capacity, size) and a    *)
(* block of elements, kept apart so that a capacity field that disagrees   *)
(* with the block is a state; its client is SpecVec.  SpecIter is the      *)
(* client that puts, then walks the table with ext_map_begin and           *)
(* ext_map_incr while erasing.                                             *)
(*                                                                         *)
(* The string (src/libs/ext_string.c) is a header and a block of bytes     *)
(* kept as runs of equal bytes; its client is SpecStr.  Uninit is a byte   *)
(* or element that was allocated and never stored.  SpecCall is the client *)
(* of the string functions that search forward and backward, compare,      *)
(* split, join and append: it chooses two short strings and makes one call *)
(* on them.                                                                *)
(***************************************************************************)
EXTENDS Integers, Sequences, FiniteSets, TLC

\* ------------------------------------------------------------------ bounds
NumKeys       == 6     \* keys of the client that puts, gets, erases and clears
NumInsertKeys == 8     \* keys of the client that only puts and gets, hash "mixed"
NumSameKeys   == 7     \* keys of the client that only puts, hash "same"
MaxCap        == 32
MaxVecCap     == 4     \* elements of the largest block of the vector
MaxPushes     == 5     \* push_back calls of a recorded history
MaxArr        == 2     \* elements of an array given to push_back_all
MaxLen        == 2     \* bytes of a short string; distance of a long one's size from the threshold
MaxText       == 2     \* bytes of a string given to the searching, comparing and splitting functions
NumIterKeys   == 5     \* keys of the client that erases while it iterates

Keys       == 1 .. NumKeys
InsertKeys == 1 .. NumInsertKeys
SameKeys   == 1 .. NumSameKeys
AllKeys    == Keys \cup InsertKeys \cup SameKeys

\* payloads the client stores under key k: two for keys 1 and 2, one otherwise
Payloads(k) == IF k <= 2 THEN {1, 2} ELSE {1}

\* ------------------------------------------------------- program constants
INITIAL_CAPACITY == 8
EMPTY_MARK == 0
TOMB_MARK  == 1

Garbage == [key |-> 0, val |-> 0]
Entry(k, v) == [key |-> k, val |-> v]

\* ------------------------------------------------------------ user callbacks
\* The hash callbacks a client may pass to ext_map_init.  The table accepts
\* any function of the key; two are enumerated.
\*   "mixed" : user hashes 0 and 1 (the reserved values) for keys 1 and 3,
\*             keys 1 and 2 with the same stored hash 2, keys 4 and 5 with
\*             the same home slot 7 of a table of 8 (the probe wraps to 0)
\*             and different home slots in a table of 16
\*   "same"  : pairwise different hashes with the same home slot 2 at every
\*             capacity up to 32
\*   "low"   : user hashes 0, 1, 2, 3 for keys 1 .. 4 (the reserved values
\*             and the values they are moved to), the other keys with
\*             home slots of their own in a table of 8
MixedHash == <<0, 2, 1, 15, 23, 5, 12, 14, 9, 27, 4, 6>>
LowHash   == <<0, 1, 2, 3, 14, 8, 21, 31, 4, 5, 6, 9>>

UserHash(h, k) ==
    CASE h = "mixed" -> MixedHash[k]
      [] h = "same"  -> 2 + 32 * k
      [] h = "low"   -> LowHash[k]

\* compare callback: equality of the key field
Compare(e1, e2) == e1.key = e2.key

\* ------------------------------------------------------------------ helpers
\* a & b on unsigned integers
RECURSIVE BitAnd(_, _)
BitAnd(a, b) ==
    IF a = 0 \/ b = 0 THEN 0
    ELSE (a % 2) * (b % 2) + 2 * BitAnd(a \div 2, b \div 2)

IS_TOMB(b)  == b = TOMB_MARK
IS_EMPTY(b) == b = EMPTY_MARK
IS_VALID(b) == ~IS_EMPTY(b) /\ ~IS_TOMB(b)

VARIABLES
    map,      \* the ext_map struct: capacity_mask, num_entries, size, buckets, entries
    hashfn,   \* the hash callback given to ext_map_init
    status,   \* "ok", "segv" (NULL dereference), "hang" (probe never returns)
    abs,      \* history: key -> payload of the last put not erased since, 0 if none
    fresh,    \* history: every call so far was a put of a key never put before
    everPut,  \* history: some ext_map_put has been called
    vec,      \* the vector: handle, header fields and block
    vstatus,  \* "ok", "segv", "overflow" (an access outside the block)
    hist,     \* history: the push_back and pop_back calls made on the vector
    str,      \* the string: out, header fields and block; NoStr before construction
    call,     \* the strings given to the searching, comparing and splitting functions, and the last call
    iter      \* an iteration over the table: the iterator and the history of what it returned

mapVars == <<map, hashfn, status, abs, fresh, everPut>>
vecVars == <<vec, vstatus, hist>>
nonMapVars == <<vecVars, str, call, iter>>
nonVecVars == <<mapVars, str, call, iter>>
nonStrVars == <<mapVars, vecVars, call, iter>>
nonCallVars == <<mapVars, vecVars, str, iter>>
nonIterVars == <<mapVars, vecVars, str, call>>
vars == <<map, hashfn, status, abs, fresh, everPut, vec, vstatus, hist, str, call, iter>>

\* buckets == NULL and entries == NULL are the functions with empty domain
NullArray == << >>
Allocated(m) == m.entries # NullArray

\* hash_entry: the user hash with 0 and 1 moved to 2 and 3
\* variant: the user hash as it is
hash_entry_Raw(h, e) == UserHash(h, e.key)

hash_entry(h, e) ==
    LET hash == UserHash(h, e.key)
    IN  IF hash < 2 THEN hash + 2 ELSE hash

\* ------------------------------------------------------------------ map_grow
\* variant: the record stays at its old slot index
RECURSIVE GrowLoop_EntryStays(_, _, _, _, _, _)
GrowLoop_EntryStays(m, i, new_cap, new_buckets, new_entries, num) ==
    IF i > m.capacity_mask
    THEN [buckets |-> new_buckets, entries |-> new_entries, num_entries |-> num]
    ELSE LET buck == m.buckets[i]
         IN  IF IS_VALID(buck)
             THEN LET new_idx == BitAnd(buck, new_cap - 1)
                  IN  GrowLoop_EntryStays(m, i + 1, new_cap,
                                          [new_buckets EXCEPT ![new_idx] = buck],
                                          [new_entries EXCEPT ![i] = m.entries[i]],
                                          num + 1)
             ELSE GrowLoop_EntryStays(m, i + 1, new_cap, new_buckets, new_entries, num)

\* the loop of map_grow over the old slots i .. capacity_mask: a valid bucket
\* is stored at new_idx = hash & (new_cap - 1) of the new arrays, whatever
\* that slot holds already
RECURSIVE GrowLoop(_, _, _, _, _, _)
GrowLoop(m, i, new_cap, new_buckets, new_entries, num) ==
    IF i > m.capacity_mask
    THEN [buckets |-> new_buckets, entries |-> new_entries, num_entries |-> num]
    ELSE LET buck == m.buckets[i]
         IN  IF IS_VALID(buck)
             THEN LET new_idx == BitAnd(buck, new_cap - 1)
                  IN  GrowLoop(m, i + 1, new_cap,
                               [new_buckets EXCEPT ![new_idx] = buck],
                               [new_entries EXCEPT ![new_idx] = m.entries[i]],
                               num + 1)
             ELSE GrowLoop(m, i + 1, new_cap, new_buckets, new_entries, num)

\* variant: triples the capacity
NewCap_Tripled(m) ==
    IF m.capacity_mask # 0 THEN (m.capacity_mask + 1) * 3 ELSE INITIAL_CAPACITY

\* variant: doubles the mask instead of the capacity
NewCap_MaskDoubled(m) ==
    IF m.capacity_mask # 0 THEN m.capacity_mask * 2 ELSE INITIAL_CAPACITY

NewCap(m) ==
    IF m.capacity_mask # 0 THEN (m.capacity_mask + 1) * 2 ELSE INITIAL_CAPACITY

map_grow(m) ==
    LET new_cap     == NewCap(m)
        new_entries == [i \in 0 .. new_cap - 1 |-> Garbage]
        new_buckets == [i \in 0 .. new_cap - 1 |-> EMPTY_MARK]
    IN  IF m.capacity_mask > 0
        THEN LET g == GrowLoop(m, 0, new_cap, new_buckets, new_entries, 0)
             IN  [capacity_mask |-> new_cap - 1, num_entries |-> g.num_entries,
                  size |-> m.size, buckets |-> g.buckets, entries |-> g.entries]
        ELSE [capacity_mask |-> new_cap - 1, num_entries |-> m.num_entries,
              size |-> m.size, buckets |-> new_buckets, entries |-> new_entries]

\* ---------------------------------------------------------------- find_index
\* The probe loop of find_index.  n counts the slots visited: the loop state (idx,
\* tomb_found, tomb_idx) repeats after capacity_mask + 1 visits, so a probe
\* that has not returned by then never returns ("hang").  tomb_idx = -1
\* stands for tomb_found = false.
\* variant: an EMPTY slot ends the probe with that slot, tombstone seen or not
RECURSIVE ProbeLoop_NoReuse(_, _, _, _, _, _)
ProbeLoop_NoReuse(m, entry, hash, idx, tomb_idx, n) ==
    IF n > m.capacity_mask THEN [out |-> "hang", idx |-> 0]
    ELSE LET buck == m.buckets[idx]
         IN  IF ~IS_VALID(buck)
             THEN IF IS_EMPTY(buck)
                  THEN [out |-> "ok", idx |-> idx]
                  ELSE ProbeLoop_NoReuse(m, entry, hash, BitAnd(idx + 1, m.capacity_mask),
                                         IF tomb_idx = -1 THEN idx ELSE tomb_idx, n + 1)
             ELSE IF buck = hash /\ Compare(m.entries[idx], entry)
                  THEN [out |-> "ok", idx |-> idx]
                  ELSE ProbeLoop_NoReuse(m, entry, hash, BitAnd(idx + 1, m.capacity_mask),
                                         tomb_idx, n + 1)

\* variant: the first TOMBSTONE ends the probe with that slot
RECURSIVE ProbeLoop_StopAtTomb(_, _, _, _, _, _)
ProbeLoop_StopAtTomb(m, entry, hash, idx, tomb_idx, n) ==
    IF n > m.capacity_mask THEN [out |-> "hang", idx |-> 0]
    ELSE LET buck == m.buckets[idx]
         IN  IF ~IS_VALID(buck)
             THEN [out |-> "ok", idx |-> idx]
             ELSE IF buck = hash /\ Compare(m.entries[idx], entry)
                  THEN [out |-> "ok", idx |-> idx]
                  ELSE ProbeLoop_StopAtTomb(m, entry, hash, BitAnd(idx + 1, m.capacity_mask),
                                            tomb_idx, n + 1)

RECURSIVE ProbeLoop(_, _, _, _, _, _)
ProbeLoop(m, entry, hash, idx, tomb_idx, n) ==
    IF n > m.capacity_mask THEN [out |-> "hang", idx |-> 0]
    ELSE LET buck == m.buckets[idx]
         IN  IF ~IS_VALID(buck)
             THEN IF IS_EMPTY(buck)
                  THEN [out |-> "ok", idx |-> IF tomb_idx # -1 THEN tomb_idx ELSE idx]
                  ELSE ProbeLoop(m, entry, hash, BitAnd(idx + 1, m.capacity_mask),
                                 IF tomb_idx = -1 THEN idx ELSE tomb_idx, n + 1)
             ELSE IF buck = hash /\ Compare(m.entries[idx], entry)
                  THEN [out |-> "ok", idx |-> idx]
                  ELSE ProbeLoop(m, entry, hash, BitAnd(idx + 1, m.capacity_mask),
                                 tomb_idx, n + 1)

\* map->buckets[idx] with buckets == NULL is a NULL dereference ("segv")
find_index(m, entry, hash) ==
    IF m.buckets = NullArray THEN [out |-> "segv", idx |-> 0]
    ELSE ProbeLoop(m, entry, hash, BitAnd(hash, m.capacity_mask), -1, 0)

\* ------------------------------------------------------------- ext_map_init
ext_map_init ==
    [capacity_mask |-> 0, num_entries |-> 0, size |-> 0,
     buckets |-> NullArray, entries |-> NullArray]

\* -------------------------------------------------------------- ext_map_get
\* result: out is "ok", "segv" or "hang"; found tells a non-NULL return and
\* rec is the record the returned pointer refers to
ext_map_get(m, h, entry) ==
    LET hash == hash_entry(h, entry)
        r    == find_index(m, entry, hash)
    IN  IF r.out # "ok" THEN [out |-> r.out, found |-> FALSE, idx |-> 0, rec |-> Garbage]
        ELSE IF ~IS_VALID(m.buckets[r.idx])
             THEN [out |-> "ok", found |-> FALSE, idx |-> r.idx, rec |-> Garbage]
             ELSE [out |-> "ok", found |-> TRUE, idx |-> r.idx, rec |-> m.entries[r.idx]]

\* -------------------------------------------------------------- ext_map_put
\* variant: grows as soon as the load reaches 75%
NeedsGrow_AtLoad(m) == 4 * (m.num_entries + 1) >= 3 * (m.capacity_mask + 1)

\* variant: only the table that was never allocated grows
NeedsGrow_OnlyFirst(m) == m.capacity_mask = 0

\* variant: grows only when the put could fill the last slot
NeedsGrow_Full(m) == m.num_entries + 1 >= m.capacity_mask + 1

\* num_entries + 1 > (capacity_mask + 1) * 0.75, in exact arithmetic
NeedsGrow(m) == 4 * (m.num_entries + 1) > 3 * (m.capacity_mask + 1)

ext_map_put(m, h, entry) ==
    LET grew == NeedsGrow(m)
        m1   == IF grew THEN map_grow(m) ELSE m
        hash == hash_entry(h, entry)
        r    == find_index(m1, entry, hash)
    IN  IF r.out # "ok"
        THEN [out |-> r.out, map |-> m1, ret |-> FALSE, idx |-> 0, grew |-> grew]
        ELSE LET idx    == r.idx
                 buck   == m1.buckets[idx]
                 is_new == ~IS_VALID(buck)
                 m2     == IF is_new
                           THEN [m1 EXCEPT !.size = @ + 1,
                                           !.num_entries = IF IS_EMPTY(buck) THEN @ + 1 ELSE @]
                           ELSE m1
             IN  [out  |-> "ok",
                  map  |-> [m2 EXCEPT !.buckets[idx] = hash, !.entries[idx] = entry],
                  ret  |-> is_new, idx |-> idx, grew |-> grew]

\* ------------------------------------------------------------ ext_map_erase
\* variant: the erased slot is marked EMPTY
ext_map_erase_Empty(m, h, entry) ==
    LET hash == hash_entry(h, entry)
        r    == find_index(m, entry, hash)
    IN  IF r.out # "ok" THEN [out |-> r.out, map |-> m, ret |-> FALSE, idx |-> 0]
        ELSE IF IS_VALID(m.buckets[r.idx])
             THEN [out |-> "ok",
                   map |-> [m EXCEPT !.buckets[r.idx] = EMPTY_MARK,
                                     !.entries[r.idx] = Garbage,
                                     !.size = @ - 1],
                   ret |-> TRUE, idx |-> r.idx]
             ELSE [out |-> "ok", map |-> m, ret |-> FALSE, idx |-> r.idx]

ext_map_erase(m, h, entry) ==
    LET hash == hash_entry(h, entry)
        r    == find_index(m, entry, hash)
    IN  IF r.out # "ok" THEN [out |-> r.out, map |-> m, ret |-> FALSE, idx |-> 0]
        ELSE IF IS_VALID(m.buckets[r.idx])
             THEN [out |-> "ok",
                   map |-> [m EXCEPT !.buckets[r.idx] = TOMB_MARK,
                                     !.entries[r.idx] = Garbage,
                                     !.size = @ - 1],
                   ret |-> TRUE, idx |-> r.idx]
             ELSE [out |-> "ok", map |-> m, ret |-> FALSE, idx |-> r.idx]

\* ------------------------------------------------------------ ext_map_clear
ext_map_clear(m) ==
    IF m.capacity_mask > 0
    THEN [m EXCEPT !.buckets = [i \in 0 .. m.capacity_mask |-> EMPTY_MARK],
                   !.entries = [i \in 0 .. m.capacity_mask |-> Garbage],
                   !.num_entries = 0, !.size = 0]
    ELSE m

ext_map_size(m) == m.size
ext_map_capacity(m) == IF m.entries # NullArray THEN m.capacity_mask + 1 ELSE 0

\* ---------------------------------------------------------------- iteration
\* An iterator is a pointer into the entry array: entries + idx * entry_sz
\* is kept as the slot index idx, NULL as null = TRUE.
NullPtr == [null |-> TRUE, idx |-> 0]
SlotPtr(i) == [null |-> FALSE, idx |-> i]

ext_map_end(m) ==
    IF m.entries # NullArray THEN SlotPtr(ext_map_capacity(m)) ELSE NullPtr

\* the loop shared by ext_map_begin and ext_map_incr: the first valid slot
\* among i .. capacity_mask, ext_map_end if there is none
RECURSIVE ValidFrom(_, _)
ValidFrom(m, i) ==
    IF i > m.capacity_mask THEN ext_map_end(m)
    ELSE IF IS_VALID(m.buckets[i]) THEN SlotPtr(i)
         ELSE ValidFrom(m, i + 1)

ext_map_begin(m) ==
    IF m.entries = NullArray THEN NullPtr ELSE ValidFrom(m, 0)

iterator_index(m, it) == it.idx

\* variant: steps to the next slot whatever its bucket holds
ext_map_incr_AnySlot(m, it) ==
    IF iterator_index(m, it) + 1 > m.capacity_mask THEN ext_map_end(m)
    ELSE SlotPtr(iterator_index(m, it) + 1)

ext_map_incr(m, it) == ValidFrom(m, iterator_index(m, it) + 1)

\* no iteration has begun
NoIter == [on |-> FALSE, it |-> NullPtr, returned |-> << >>]

\* ==================================================================== vector
\* The vector of extlib (src/unnamed/part_002; ext_vec_erase_unordered,
\* ext_vec_resize and ext_vec_resize_zeroed from the copy of extlib.h in
\* src/libs/ext_map.c).  A vector is the handle and the block behind it:
\* null tells a NULL handle, capacity and size are the fields of the header,
\* data is the allocated block, one element per position, so Len(data) is the
\* number of elements the allocator gave: what the header's capacity field
\* is meant to record.  Element i of the C array is data[i + 1].
\*
\* Every operation returns [out, vec]; out is "ok", "segv" (the header of a
\* NULL handle is dereferenced) or "overflow" (a byte outside the block is
\* accessed).

\* contents of memory that malloc or realloc returned and nobody wrote
Uninit == -1
\* the values a client stores
Elems == {1, 2}

NullVec == [null |-> TRUE, capacity |-> 0, size |-> 0, data |-> << >>]

VecOk(v) == [out |-> "ok", vec |-> v]
VecFault(o, v) == [out |-> o, vec |-> v]

ext_vec_size(v) == IF ~v.null THEN v.size ELSE 0
ext_vec_capacity(v) == IF ~v.null THEN v.capacity ELSE 0

\* variant: the new block does not receive the old contents
Realloc_NoCopy(data, n) == [i \in 1 .. n |-> Uninit]

\* malloc (data = << >>) or realloc of a block to n elements: the old
\* contents up to the smaller of the two sizes, the rest unwritten
Realloc(data, n) == [i \in 1 .. n |-> IF i <= Len(data) THEN data[i] ELSE Uninit]

ext_vec_set_size_(v, sz) ==
    IF v.null THEN VecFault("segv", v) ELSE VecOk([v EXCEPT !.size = sz])

\* (vec)[i] = e
VecStore(v, i, e) ==
    IF v.null THEN VecFault("segv", v)
    ELSE IF i >= Len(v.data) THEN VecFault("overflow", v)
    ELSE VecOk([v EXCEPT !.data[i + 1] = e])

\* variant: the block is replaced by a new one, the old contents are dropped
ext_vec_reserve_Fresh(v, amount, late) ==
    IF v.null
    THEN VecOk([null |-> FALSE, capacity |-> late, size |-> 0,
                data |-> Realloc(<< >>, amount)])
    ELSE IF ext_vec_capacity(v) < amount
         THEN VecOk([v EXCEPT !.capacity = late, !.data = Realloc(<< >>, amount)])
         ELSE VecOk(v)

\* ext_vec_reserve is a macro: its argument is evaluated where it is used.
\* amount is the value of the argument before the allocation (in the test
\* and in the size passed to realloc), late its value in
\* header->capacity = (amount), after the allocation.
ext_vec_reserve(v, amount, late) ==
    IF v.null
    THEN VecOk([null |-> FALSE, capacity |-> late, size |-> 0,
                data |-> Realloc(<< >>, amount)])
    ELSE IF ext_vec_capacity(v) < amount
         THEN VecOk([v EXCEPT !.capacity = late, !.data = Realloc(v.data, amount)])
         ELSE VecOk(v)

\* variant: the capacity asked for is exactly what is needed
DoubleUntil_Exact(new_capacity, need) ==
    IF need > new_capacity THEN need ELSE new_capacity

\* while(size + (amount) > new_capacity) new_capacity *= 2
RECURSIVE DoubleUntil(_, _)
DoubleUntil(new_capacity, need) ==
    IF need > new_capacity THEN DoubleUntil(new_capacity * 2, need) ELSE new_capacity

ext_vec_maybe_grow_(v, amount) ==
    LET capacity == ext_vec_capacity(v)
        size     == ext_vec_size(v)
    IN  IF size + amount > capacity
        THEN LET new_capacity ==
                     DoubleUntil(IF capacity # 0 THEN capacity * 2 ELSE 1, size + amount)
             IN  ext_vec_reserve(v, new_capacity, new_capacity)
        ELSE VecOk(v)

ext_vec_push_back(v, e) ==
    LET g    == ext_vec_maybe_grow_(v, 1)
        size == ext_vec_size(g.vec)
        w    == VecStore(g.vec, size, e)
    IN  IF g.out # "ok" THEN g
        ELSE IF w.out # "ok" THEN w
        ELSE ext_vec_set_size_(w.vec, size + 1)

\* the loop of ext_vec_push_back_all from element i of arr on
RECURSIVE PushLoop(_, _, _)
PushLoop(v, arr, i) ==
    IF i > Len(arr) THEN VecOk(v)
    ELSE LET r == ext_vec_push_back(v, arr[i])
         IN  IF r.out # "ok" THEN r ELSE PushLoop(r.vec, arr, i + 1)

\* ext_vec_reserve(vec, ext_vec_size(vec) + size): when realloc moves the
\* block (moved), header->capacity = (ext_vec_size(vec) + size) reads the size
\* through the old handle, a pointer into the block realloc has freed; word
\* is what that read returns.
ext_vec_push_back_all(v, arr, moved, word) ==
    LET amount == ext_vec_size(v) + Len(arr)
        late   == IF ~v.null /\ moved THEN word + Len(arr) ELSE amount
        r      == ext_vec_reserve(v, amount, late)
    IN  IF r.out # "ok" THEN r ELSE PushLoop(r.vec, arr, 1)

\* assert(ext_vec_size(vec) != 0) is the caller's obligation
ext_vec_pop_back(v) == ext_vec_set_size_(v, ext_vec_size(v) - 1)

\* memmove(vec + to, vec + from, n elements)
MemMove(data, to, from, n) ==
    [j \in 1 .. Len(data) |->
        IF j - 1 >= to /\ j - 1 < to + n THEN data[j - to + from] ELSE data[j]]

\* assert(i < size + 1) is the caller's obligation
ext_vec_insert(v, i, e) ==
    LET g    == ext_vec_maybe_grow_(v, 1)
        size == ext_vec_size(g.vec)
    IN  IF g.out # "ok" THEN g
        ELSE IF g.vec.null THEN VecFault("segv", g.vec)
        ELSE IF size - i > 0 /\ size + 1 > Len(g.vec.data) THEN VecFault("overflow", g.vec)
        ELSE LET m == [g.vec EXCEPT !.data = MemMove(@, i + 1, i, size - i)]
                 w == VecStore(m, i, e)
             IN  IF w.out # "ok" THEN w ELSE ext_vec_set_size_(w.vec, size + 1)

\* assert(i < size) is the caller's obligation
ext_vec_erase(v, i) ==
    LET size == ext_vec_size(v)
    IN  IF v.null THEN VecFault("segv", v)
        ELSE IF size - i - 1 > 0 /\ size > Len(v.data) THEN VecFault("overflow", v)
        ELSE ext_vec_set_size_([v EXCEPT !.data = MemMove(@, i, i + 1, size - i - 1)],
                               size - 1)

\* assert(i < size) is the caller's obligation
ext_vec_erase_unordered(v, i) ==
    LET size == ext_vec_size(v)
    IN  IF v.null THEN VecFault("segv", v)
        ELSE IF size > Len(v.data) THEN VecFault("overflow", v)
        ELSE LET w == VecStore(v, i, v.data[size])
             IN  IF w.out # "ok" THEN w ELSE ext_vec_set_size_(w.vec, size - 1)

\* variant: the allocation is released
ext_vec_clear_Release(v) == VecOk(NullVec)

ext_vec_clear(v) == IF ~v.null THEN VecOk([v EXCEPT !.size = 0]) ELSE VecOk(v)

\* the loop for(i = size; i < new_size; i++) (vec)[i] = elem, and the memset
\* of ext_vec_resize_zeroed
RECURSIVE FillLoop(_, _, _, _)
FillLoop(v, i, new_size, elem) ==
    IF i >= new_size THEN VecOk(v)
    ELSE LET w == VecStore(v, i, elem)
         IN  IF w.out # "ok" THEN w ELSE FillLoop(w.vec, i + 1, new_size, elem)

\* ext_vec_resize(vec, new_size, elem) of src/unnamed/part_002
ext_vec_resize_elem(v, new_size, elem) ==
    LET size == ext_vec_size(v)
    IN  IF new_size < size THEN ext_vec_set_size_(v, new_size)
        ELSE LET r == ext_vec_reserve(v, new_size, new_size)
                 f == FillLoop(r.vec, size, new_size, elem)
             IN  IF f.out # "ok" THEN f ELSE ext_vec_set_size_(f.vec, new_size)

\* variant: the size is set without reserving
ext_vec_resize_NoReserve(v, new_size) == ext_vec_set_size_(v, new_size)

\* ext_vec_resize(vec, new_size) of extlib.h: the new elements are not written
ext_vec_resize(v, new_size) ==
    LET size == ext_vec_size(v)
        r    == IF new_size >= size THEN ext_vec_reserve(v, new_size, new_size) ELSE VecOk(v)
    IN  ext_vec_set_size_(r.vec, new_size)

ext_vec_resize_zeroed(v, new_size) ==
    LET size == ext_vec_size(v)
    IN  IF new_size >= size
        THEN LET r == ext_vec_reserve(v, new_size, new_size)
                 f == FillLoop(r.vec, size, new_size, 0)
             IN  IF f.out # "ok" THEN f ELSE ext_vec_set_size_(f.vec, new_size)
        ELSE ext_vec_set_size_(v, new_size)

\* variant: the block is reallocated, the capacity field is left as it was
ext_vec_shrink_to_fit_KeepCapacity(v) ==
    IF ~v.null
    THEN IF v.size # 0
         THEN VecOk([v EXCEPT !.data = Realloc(@, v.size)])
         ELSE VecOk(NullVec)
    ELSE VecOk(v)

ext_vec_shrink_to_fit(v) ==
    IF ~v.null
    THEN IF v.size # 0
         THEN VecOk([v EXCEPT !.capacity = v.size, !.data = Realloc(@, v.size)])
         ELSE VecOk(NullVec)
    ELSE VecOk(v)

\* ==================================================================== string
\* no string constructed yet
NoStr == [out |-> "ok", capacity |-> 0, size |-> 0, data |-> << >>]

\* The string of extlib (src/libs/ext_string.c; ext_str_resize and
\* ext_str_resize_zeroed from the copy of extlib.h in src/libs/ext_map.c).
\* A string is the header fields capacity and size and the block of bytes
\* behind the handle.  Blocks can be longer than a mebibyte, so a block is
\* kept as its runs: a sequence of [b, n], n >= 1 bytes of value b, no two
\* neighbours with the same b.  A byte is 0, a character code or Uninit.
\* out is "ok", "overflow" (a byte outside the block is accessed) or "hang".
LOGARITHMIC_GROWTH_TRESH == 1048576   \* 1024 * 1024

Run(b, n) == <<[b |-> b, n |-> n]>>

RECURSIVE RunLen(_)
RunLen(d) == IF d = << >> THEN 0 ELSE Head(d).n + RunLen(Tail(d))

\* the runs of a sequence of pieces: empty pieces dropped, neighbours merged
RECURSIVE Norm(_)
Norm(d) ==
    IF d = << >> THEN << >>
    ELSE IF Head(d).n <= 0 THEN Norm(Tail(d))
    ELSE LET r == Norm(Tail(d))
         IN  IF r # << >> /\ Head(r).b = Head(d).b
             THEN Run(Head(d).b, Head(d).n + Head(r).n) \o Tail(r)
             ELSE <<Head(d)>> \o r

\* the first n bytes of d, and d without them
RECURSIVE Take(_, _)
Take(d, n) ==
    IF n <= 0 \/ d = << >> THEN << >>
    ELSE IF Head(d).n <= n THEN <<Head(d)>> \o Take(Tail(d), n - Head(d).n)
    ELSE Run(Head(d).b, n)

RECURSIVE Drop(_, _)
Drop(d, n) ==
    IF d = << >> THEN << >>
    ELSE IF n <= 0 THEN d
    ELSE IF Head(d).n <= n THEN Drop(Tail(d), n - Head(d).n)
    ELSE Run(Head(d).b, Head(d).n - n) \o Tail(d)

\* str[i]
ByteAt(d, i) == Head(Drop(d, i)).b

\* malloc (d = << >>) or realloc of a block to n bytes
ReallocBytes(d, n) == Norm(Take(d, n) \o Run(Uninit, n - RunLen(d)))

\* memcpy / memset of the bytes src to offset off of the block of s
StrWrite(s, off, src) ==
    IF s.out # "ok" THEN s
    ELSE IF off + RunLen(src) > RunLen(s.data) THEN [s EXCEPT !.out = "overflow"]
    ELSE [s EXCEPT !.data = Norm(Take(@, off) \o src \o Drop(@, off + RunLen(src)))]

\* the byte '\0' a string ends with
Terminator == Run(0, 1)

\* strlen of the NUL-terminated string whose bytes are c: the bytes before
\* the first 0
RECURSIVE StrLen(_)
StrLen(c) ==
    IF c = << >> THEN 0
    ELSE IF Head(c).b = 0 THEN 0
    ELSE Head(c).n + StrLen(Tail(c))

ext_str_size(s) == s.size
ext_str_capacity(s) == s.capacity
ext_str_set_size(s, size) == IF s.out # "ok" THEN s ELSE [s EXCEPT !.size = size]

\* while(new_capacity <= header->size + amount) new_capacity *= 2
RECURSIVE DoubleWhile(_, _)
DoubleWhile(new_capacity, need) ==
    IF new_capacity <= need THEN DoubleWhile(new_capacity * 2, need) ELSE new_capacity

\* variant: grows only when the bytes themselves do not fit
ext_str_maybe_grow_NoTerminator(s, amount) ==
    IF s.out # "ok" THEN s
    ELSE IF s.size + amount > s.capacity
    THEN LET new_capacity == s.size + amount
         IN  [s EXCEPT !.capacity = new_capacity, !.data = ReallocBytes(@, new_capacity)]
    ELSE s

ext_str_maybe_grow(s, amount) ==
    IF s.out # "ok" THEN s
    ELSE IF s.size + amount >= s.capacity
    THEN IF s.capacity = 0 THEN [s EXCEPT !.out = "hang"]
         ELSE LET new_capacity ==
                      IF s.capacity > LOGARITHMIC_GROWTH_TRESH
                      THEN s.capacity + amount
                      ELSE DoubleWhile(s.capacity, s.size + amount)
              IN  [s EXCEPT !.capacity = new_capacity, !.data = ReallocBytes(@, new_capacity)]
    ELSE s

ext_str_new_cap(capacity) ==
    [out |-> "ok", capacity |-> capacity + 1, size |-> 0,
     data |-> ReallocBytes(<< >>, capacity + 1)]

ext_str_new_len(data, len) ==
    LET header == [out |-> "ok", capacity |-> len + 1, size |-> len,
                   data |-> ReallocBytes(<< >>, len + 1)]
    IN  StrWrite(StrWrite(header, 0, Take(data, len)), len, Terminator)

ext_str_dup(s) == ext_str_new_len(s.data, ext_str_size(s))

ext_str_new(cstring) == ext_str_new_len(cstring, StrLen(cstring))

\* variant: strncpy-like, nothing is copied from the first zero byte on
ext_str_append_len_UntilZero(s, data, len) ==
    LET g    == ext_str_maybe_grow(s, len)
        size == ext_str_size(g)
        n    == IF StrLen(Take(data, len)) < len THEN StrLen(Take(data, len)) ELSE len
    IN  ext_str_set_size(StrWrite(StrWrite(g, size, Take(data, n)), size + n, Terminator),
                         size + n)

ext_str_append_len(s, data, len) ==
    LET g    == ext_str_maybe_grow(s, len)
        size == ext_str_size(g)
    IN  ext_str_set_size(StrWrite(StrWrite(g, size, Take(data, len)), size + len, Terminator),
                         size + len)

ext_str_append_str(s, other) == ext_str_append_len(s, other.data, ext_str_size(other))

ext_str_append(s, cstring) == ext_str_append_len(s, cstring, StrLen(cstring))

\* vsnprintf(buf, available, fmt, ...) whose formatted text is text: as many
\* bytes of it as fit before the terminator, which is always stored when
\* available > 0; the return value is the length of text
VsnPrintf(s, off, available, text) ==
    IF available = 0 THEN s
    ELSE LET n == IF RunLen(text) < available THEN RunLen(text) ELSE available - 1
         IN  StrWrite(StrWrite(s, off, Take(text, n)), off + n, Terminator)

ext_str_append_vfmt(s, text) ==
    LET size      == ext_str_size(s)
        available == ext_str_capacity(s) - size
        written   == RunLen(text)
        first     == VsnPrintf(s, size, available, text)
    IN  IF written >= available
        THEN LET g == ext_str_maybe_grow(first, written)
             IN  ext_str_set_size(VsnPrintf(g, size, ext_str_capacity(g) - size, text),
                                  size + written)
        ELSE ext_str_set_size(first, size + written)

\* the loop of ext_str_join from strings[i] on (i counts from 1)
RECURSIVE JoinLoop(_, _, _, _)
JoinLoop(joined, sep, strings, i) ==
    IF i > Len(strings) THEN joined
    ELSE LET a == ext_str_append(joined, strings[i])
             b == IF i # Len(strings) THEN ext_str_append(a, sep) ELSE a
         IN  JoinLoop(b, sep, strings, i + 1)

\* ext_str_new_len("", 0)
EmptyString == ext_str_new_len(<< >>, 0)

ext_str_join(sep, strings) ==
    IF Len(strings) = 0 THEN EmptyString
    ELSE JoinLoop(ext_str_new_cap(StrLen(strings[1]) * 2), sep, strings, 1)

\* assert(start <= end) and assert(end <= size) are the caller's obligation
ext_str_substr(s, start, end) == ext_str_new_len(Drop(s.data, start), end - start)

ext_str_shrink_to_fit(s) ==
    IF ext_str_size(s) + 1 < ext_str_capacity(s)
    THEN [s EXCEPT !.capacity = s.size + 1, !.data = ReallocBytes(@, s.size + 1)]
    ELSE s

ext_str_reserve(s, amount) ==
    IF amount + 1 > ext_str_capacity(s)
    THEN [s EXCEPT !.capacity = amount + 1, !.data = ReallocBytes(@, amount + 1)]
    ELSE s

ext_str_resize(s, new_size) ==
    StrWrite(ext_str_set_size(ext_str_reserve(s, new_size), new_size), new_size, Terminator)

ext_str_resize_zeroed(s, new_size) ==
    LET old_size == ext_str_size(s)
        r        == ext_str_resize(s, new_size)
    IN  IF new_size > old_size THEN StrWrite(r, old_size, Run(0, new_size - old_size))
        ELSE r

\* ------------------------------------------- searching, comparing, splitting
\* size_t is modelled 30 bits wide (the model checker's integers have 32):
\* arithmetic on it is taken modulo SizeMod
SizeMod == 1073741824   \* 2 ^ 30
ext_str_npos == SizeMod - 1

\* no strings chosen and no call made
NoCall == [s1 |-> NoStr, s2 |-> NoStr, op |-> "none", pos |-> 0, len |-> 0, sep |-> 0,
           out |-> "ok", ret |-> 0, toks |-> NullVec]

\* the runs of a sequence of bytes
FromBytes(bytes) == Norm([i \in 1 .. Len(bytes) |-> [b |-> bytes[i], n |-> 1]])

\* memcmp(str + i, needle, len) == 0; "overflow" when the len bytes at
\* offset i do not lie inside the block
MemCmp(s, i, needle, len) ==
    IF i + len > RunLen(s.data) \/ len > RunLen(needle) THEN "overflow"
    ELSE IF \A j \in 0 .. len - 1 : ByteAt(s.data, i + j) = ByteAt(needle, j) THEN "equal"
    ELSE "differ"

\* the loop of ext_str_find_len from i on; cmp collects the offsets given to
\* memcmp
RECURSIVE FindLoop(_, _, _, _, _)
FindLoop(s, i, needle, len, cmp) ==
    IF i <= ext_str_size(s) - len
    THEN LET c == MemCmp(s, i, needle, len)
         IN  IF c = "overflow" THEN [out |-> "overflow", ret |-> 0, cmp |-> cmp \cup {i}]
             ELSE IF c = "equal" THEN [out |-> "ok", ret |-> i, cmp |-> cmp \cup {i}]
             ELSE FindLoop(s, (i + 1) % SizeMod, needle, len, cmp \cup {i})
    ELSE [out |-> "ok", ret |-> ext_str_npos, cmp |-> cmp]

\* variant: the first offset is skipped
ext_str_find_len_FromNext(s, start_pos, needle, len) ==
    IF ext_str_size(s) < len THEN [out |-> "ok", ret |-> ext_str_npos, cmp |-> {}]
    ELSE FindLoop(s, (start_pos + 1) % SizeMod, needle, len, {})

ext_str_find_len(s, start_pos, needle, len) ==
    IF ext_str_size(s) < len THEN [out |-> "ok", ret |-> ext_str_npos, cmp |-> {}]
    ELSE FindLoop(s, start_pos, needle, len, {})

\* the loop of ext_str_rfind_len from i down; i-- wraps from 0 to
\* ext_str_npos, which ends the loop
RECURSIVE RFindLoop(_, _, _, _, _)
RFindLoop(s, i, needle, len, cmp) ==
    IF i # ext_str_npos
    THEN LET c == MemCmp(s, i, needle, len)
         IN  IF c = "overflow" THEN [out |-> "overflow", ret |-> 0, cmp |-> cmp \cup {i}]
             ELSE IF c = "equal" THEN [out |-> "ok", ret |-> i, cmp |-> cmp \cup {i}]
             ELSE RFindLoop(s, (i + SizeMod - 1) % SizeMod, needle, len, cmp \cup {i})
    ELSE [out |-> "ok", ret |-> ext_str_npos, cmp |-> cmp]

\* start_pos counts from the end of the string; len - 1 and
\* size - start_pos - 1 are computed in size_t
ext_str_rfind_len(s, start_pos, needle, len) ==
    LET size == ext_str_size(s)
        from == IF start_pos <= len THEN (len + SizeMod - 1) % SizeMod ELSE start_pos
    IN  IF size < len THEN [out |-> "ok", ret |-> ext_str_npos, cmp |-> {}]
        ELSE IF start_pos >= size THEN [out |-> "ok", ret |-> ext_str_npos, cmp |-> {}]
        ELSE RFindLoop(s, (size - from - 1) % SizeMod, needle, len, {})

\* variant: strncmp, which looks no further than a zero byte
memcmp_UntilZero(d1, d2, n, mag) ==
    LET diff == {j \in 0 .. n - 1 :
                    /\ ByteAt(d1, j) # ByteAt(d2, j)
                    /\ \A k \in 0 .. j - 1 : ByteAt(d1, k) # 0}
    IN  IF diff = {} THEN 0
        ELSE LET d == CHOOSE j \in diff : \A k \in diff : j <= k
             IN  IF ByteAt(d1, d) < ByteAt(d2, d) THEN 0 - mag ELSE mag

\* memcmp(d1, d2, n): zero when the first n bytes agree, else negative or
\* positive as the first differing byte (an unsigned char) of d1 is the
\* smaller or the greater; the C library chooses the magnitude mag
memcmp(d1, d2, n, mag) ==
    LET diff == {j \in 0 .. n - 1 : ByteAt(d1, j) # ByteAt(d2, j)}
    IN  IF diff = {} THEN 0
        ELSE LET d == CHOOSE j \in diff : \A k \in diff : j <= k
             IN  IF ByteAt(d1, d) < ByteAt(d2, d) THEN 0 - mag ELSE mag

ext_str_compare(s1, s2, mag) ==
    LET len1    == ext_str_size(s1)
        len2    == ext_str_size(s2)
        min_len == IF len1 < len2 THEN len1 ELSE len2
        res     == memcmp(s1.data, s2.data, min_len, mag)
    IN  IF res = 0
        THEN IF len1 > len2 THEN 1 ELSE IF len1 < len2 THEN 0 - 1 ELSE 0
        ELSE res

\* the loop of ext_str_join_str from strings[i] on (i counts from 1)
RECURSIVE JoinStrLoop(_, _, _, _)
JoinStrLoop(joined, sep, strings, i) ==
    IF i > Len(strings) THEN joined
    ELSE LET a == ext_str_append_str(joined, strings[i])
             b == IF i # Len(strings) THEN ext_str_append(a, sep) ELSE a
         IN  JoinStrLoop(b, sep, strings, i + 1)

\* sep is a NUL-terminated string, strings the count strings of the array
ext_str_join_str(sep, strings) ==
    IF Len(strings) = 0 THEN EmptyString
    ELSE JoinStrLoop(ext_str_new_cap(ext_str_size(strings[1]) * 2), sep, strings, 1)

\* the loop of ext_str_split from offset i on, and the token after it; last
\* is the offset the next token begins at, tokens the vector and its outcome
RECURSIVE SplitLoop(_, _, _, _, _)
SplitLoop(s, sep, i, last, tokens) ==
    IF tokens.out # "ok" THEN tokens
    ELSE IF i < ext_str_size(s)
    THEN IF ByteAt(s.data, i) = sep
         THEN LET tok == ext_str_new_len(Drop(s.data, last), i - last)
              IN  SplitLoop(s, sep, i + 1, i + 1, ext_vec_push_back(tokens.vec, tok))
         ELSE SplitLoop(s, sep, i + 1, last, tokens)
    ELSE LET tok == ext_str_new_len(Drop(s.data, last), ext_str_size(s) - last)
         IN  ext_vec_push_back(tokens.vec, tok)

\* variant: no token follows the last separator
ext_str_split_DropLast(s, sep) ==
    LET r == SplitLoop(s, sep, 0, 0, VecOk(NullVec))
    IN  IF r.out = "ok" /\ ext_vec_size(r.vec) > 1
        THEN ext_vec_set_size_(r.vec, ext_vec_size(r.vec) - 1)
        ELSE r

ext_str_split(s, sep) == SplitLoop(s, sep, 0, 0, VecOk(NullVec))

\* ------------------------------------------------------------------ actions
InitWith(h) ==
    /\ map = ext_map_init
    /\ hashfn = h
    /\ status = "ok"
    /\ abs = [k \in AllKeys |-> 0]
    /\ fresh = TRUE
    /\ everPut = FALSE
    /\ vec = NullVec
    /\ vstatus = "ok"
    /\ hist = [on |-> TRUE, pushed |-> << >>, pushes |-> 0, pops |-> 0]
    /\ str = NoStr
    /\ call = NoCall
    /\ iter = NoIter

Init == InitWith("mixed")

\* the model stops at MaxCap slots
CanPut(m) == NeedsGrow(m) => NewCap(m) <= MaxCap

Put(k, v) ==
    /\ status = "ok"
    /\ CanPut(map)
    /\ LET r == ext_map_put(map, hashfn, Entry(k, v))
       IN  /\ map' = r.map
           /\ status' = r.out
           /\ abs' = IF r.out = "ok" THEN [abs EXCEPT ![k] = v] ELSE abs
    /\ fresh' = (fresh /\ abs[k] = 0)
    /\ everPut' = TRUE
    /\ UNCHANGED <<hashfn, nonMapVars>>

\* ext_map_get takes a const map: the only state it can change is the
\* process (a fault)
Get(k) ==
    /\ status = "ok"
    /\ status' = ext_map_get(map, hashfn, Entry(k, 0)).out
    /\ UNCHANGED <<map, hashfn, abs, fresh, everPut, nonMapVars>>

Erase(k) ==
    /\ status = "ok"
    /\ LET r == ext_map_erase(map, hashfn, Entry(k, 0))
       IN  /\ map' = r.map
           /\ status' = r.out
           /\ abs' = IF r.out = "ok" THEN [abs EXCEPT ![k] = 0] ELSE abs
    /\ fresh' = FALSE
    /\ UNCHANGED <<hashfn, everPut, nonMapVars>>

Clear ==
    /\ status = "ok"
    /\ map' = ext_map_clear(map)
    /\ abs' = [k \in AllKeys |-> 0]
    /\ fresh' = FALSE
    /\ UNCHANGED <<hashfn, status, everPut, nonMapVars>>

Next ==
    \/ \E k \in Keys : \E v \in Payloads(k) : Put(k, v)
    \/ \E k \in Keys : Get(k)
    \/ \E k \in Keys : Erase(k)
    \/ Clear

Spec == Init /\ [][Next]_vars

\* a client that only puts and gets, with keys InsertKeys
NextInsert ==
    \/ \E k \in InsertKeys : \E v \in Payloads(k) : Put(k, v)
    \/ \E k \in InsertKeys : Get(k)

SpecInsert == InitWith("mixed") /\ [][NextInsert]_vars

\* a client that only puts (payload 1), with the hash callback "same" and
\* keys SameKeys
NextSame == \E k \in SameKeys : Put(k, 1)

SpecSame == InitWith("same") /\ [][NextSame]_vars

\* a client that puts (payload 1), erases and clears, with keys InsertKeys:
\* enough keys to occupy more than 75% of 8 slots
NextLoad ==
    \/ \E k \in InsertKeys : Put(k, 1)
    \/ \E k \in InsertKeys : Erase(k)
    \/ Clear

SpecLoad == InitWith("mixed") /\ [][NextLoad]_vars

\* the client of Spec with one payload per key and the hash callback "low"
NextLow ==
    \/ \E k \in Keys : Put(k, 1)
    \/ \E k \in Keys : Get(k)
    \/ \E k \in Keys : Erase(k)
    \/ Clear

SpecLow == InitWith("low") /\ [][NextLow]_vars

\* a client that puts (payload 1), then iterates with
\*   for(it = ext_map_begin(m); it != ext_map_end(m); it = ext_map_incr(m, it))
\* and erases keys before and between the calls.  The history records, for
\* every pointer begin and incr returned, its slot and whether the slot was
\* live at that moment.
Returned(m, it) ==
    IF it = ext_map_end(m) THEN << >>
    ELSE << [idx |-> it.idx, valid |-> IS_VALID(m.buckets[it.idx])] >>

Begin ==
    /\ status = "ok"
    /\ ~iter.on
    /\ iter' = [on |-> TRUE, it |-> ext_map_begin(map),
                returned |-> Returned(map, ext_map_begin(map))]
    /\ UNCHANGED nonIterVars

Incr ==
    /\ status = "ok"
    /\ iter.on
    /\ iter.it # ext_map_end(map)
    /\ iter' = [iter EXCEPT !.it = ext_map_incr(map, iter.it),
                            !.returned = @ \o Returned(map, ext_map_incr(map, iter.it))]
    /\ UNCHANGED nonIterVars

NextIter ==
    \/ \E k \in 1 .. NumIterKeys : ~iter.on /\ Put(k, 1)
    \/ \E k \in 1 .. NumIterKeys : Erase(k)
    \/ Begin
    \/ Incr

SpecIter == Init /\ [][NextIter]_vars

\* ------------------------------------------------------- the vector's client
\* hist records a run of the client as long as it consists of at most
\* MaxPushes push_back calls and of pop_back calls: pushed holds the values
\* pushed and not popped, in the order of the pushes.  Any other call ends
\* the record.
NoHist == [on |-> FALSE, pushed |-> << >>, pushes |-> 0, pops |-> 0]

\* the model stops at blocks of MaxVecCap elements
VecStep(r) ==
    /\ vstatus = "ok"
    /\ Len(r.vec.data) <= MaxVecCap
    /\ vec' = r.vec
    /\ vstatus' = r.out
    /\ UNCHANGED nonVecVars

PushBack(e) ==
    /\ VecStep(ext_vec_push_back(vec, e))
    /\ hist' = IF hist.on /\ hist.pushes < MaxPushes
               THEN [hist EXCEPT !.pushed = Append(@, e), !.pushes = @ + 1]
               ELSE NoHist

PopBack ==
    /\ ext_vec_size(vec) # 0
    /\ VecStep(ext_vec_pop_back(vec))
    /\ hist' = IF hist.on
               THEN [hist EXCEPT !.pushed = SubSeq(@, 1, Len(@) - 1), !.pops = @ + 1]
               ELSE NoHist

\* the arrays a client passes to push_back_all
Arrays == UNION {[1 .. n -> Elems] : n \in 0 .. MaxArr}

\* a word read from a freed block: what was there before (the size), or
\* whatever the allocator has put there since
BigWord == 1000
FreedWords(v) == {ext_vec_size(v), 0, BigWord}

PushBackAll(arr, moved, word) ==
    /\ VecStep(ext_vec_push_back_all(vec, arr, moved, word))
    /\ hist' = NoHist

Insert(i, e) ==
    /\ i < ext_vec_size(vec) + 1
    /\ VecStep(ext_vec_insert(vec, i, e))
    /\ hist' = NoHist

EraseAt(i) ==
    /\ i < ext_vec_size(vec)
    /\ VecStep(ext_vec_erase(vec, i))
    /\ hist' = NoHist

EraseUnordered(i) ==
    /\ i < ext_vec_size(vec)
    /\ VecStep(ext_vec_erase_unordered(vec, i))
    /\ hist' = NoHist

ClearVec ==
    /\ VecStep(ext_vec_clear(vec))
    /\ hist' = NoHist

Reserve(n) ==
    /\ VecStep(ext_vec_reserve(vec, n, n))
    /\ hist' = NoHist

Resize(n) ==
    /\ VecStep(ext_vec_resize(vec, n))
    /\ hist' = NoHist

ResizeElem(n, e) ==
    /\ VecStep(ext_vec_resize_elem(vec, n, e))
    /\ hist' = NoHist

ResizeZeroed(n) ==
    /\ VecStep(ext_vec_resize_zeroed(vec, n))
    /\ hist' = NoHist

ShrinkToFit ==
    /\ VecStep(ext_vec_shrink_to_fit(vec))
    /\ hist' = NoHist

NextVec ==
    \/ \E e \in Elems : PushBack(e)
    \/ PopBack
    \/ \E arr \in Arrays : \E moved \in BOOLEAN : \E word \in FreedWords(vec) :
           PushBackAll(arr, moved, word)
    \/ \E i \in 0 .. MaxVecCap : \E e \in Elems : Insert(i, e)
    \/ \E i \in 0 .. MaxVecCap : EraseAt(i)
    \/ \E i \in 0 .. MaxVecCap : EraseUnordered(i)
    \/ ClearVec
    \/ \E n \in 0 .. MaxVecCap : Reserve(n)
    \/ \E n \in 0 .. MaxVecCap : Resize(n)
    \/ \E n \in 0 .. MaxVecCap : \E e \in Elems : ResizeElem(n, e)
    \/ \E n \in 0 .. MaxVecCap : ResizeZeroed(n)
    \/ ShrinkToFit

SpecVec == Init /\ [][NextVec]_vars

\* ------------------------------------------------------- the string's client
\* the byte strings a client passes: "" and "a" as NUL-terminated strings,
\* and these, "aa" and "a\0" with their length (to ext_str_new_len and
\* ext_str_append_len)
CStrings == {<< >>, Run(97, 1)}
Texts == CStrings \cup {Run(97, 2), Run(97, 1) \o Run(0, 1)}
\* the string arrays a client passes to ext_str_join
StringArrays == {<< >>, <<Run(97, 1)>>, << << >>, Run(97, 1) >>, <<Run(97, 2), Run(97, 1)>>}
\* the capacities and sizes a client asks for
SizesAsked ==
    (0 .. MaxLen) \cup
    {LOGARITHMIC_GROWTH_TRESH - 1, LOGARITHMIC_GROWTH_TRESH}

\* the model stops at strings longer than MaxLen bytes that are not within
\* one byte below and MaxLen bytes above the threshold, and at blocks of more
\* than twice the threshold
StrFits(s) ==
    /\ \/ s.size <= MaxLen
       \/ /\ s.size >= LOGARITHMIC_GROWTH_TRESH - 1
          /\ s.size <= LOGARITHMIC_GROWTH_TRESH + MaxLen
    /\ s.capacity <= 2 * LOGARITHMIC_GROWTH_TRESH + 2 * MaxLen

\* a constructor may return s: the client's handle is usable and s is in range
CanConstruct(s) ==
    /\ str.out = "ok"
    /\ StrFits(s)

\* a call on the constructed string
Mutate(s) ==
    /\ str # NoStr
    /\ str.out = "ok"
    /\ StrFits(s)
    /\ str' = s
    /\ UNCHANGED nonStrVars

\* the constructors: the handle now refers to the new string
NewWithCap(capacity) ==
    /\ CanConstruct(ext_str_new_cap(capacity))
    /\ str' = ext_str_new_cap(capacity)
    /\ UNCHANGED nonStrVars

NewLen(t) ==
    /\ CanConstruct(ext_str_new_len(t, RunLen(t)))
    /\ str' = ext_str_new_len(t, RunLen(t))
    /\ UNCHANGED nonStrVars

NewStr(c) ==
    /\ CanConstruct(ext_str_new(c))
    /\ str' = ext_str_new(c)
    /\ UNCHANGED nonStrVars

Dup ==
    /\ str # NoStr
    /\ CanConstruct(ext_str_dup(str))
    /\ str' = ext_str_dup(str)
    /\ UNCHANGED nonStrVars

Join(sep, strings) ==
    /\ CanConstruct(ext_str_join(sep, strings))
    /\ str' = ext_str_join(sep, strings)
    /\ UNCHANGED nonStrVars

Substr(start, end) ==
    /\ str # NoStr
    /\ start <= end /\ end <= ext_str_size(str)
    /\ CanConstruct(ext_str_substr(str, start, end))
    /\ str' = ext_str_substr(str, start, end)
    /\ UNCHANGED nonStrVars

AppendLen(t) == Mutate(ext_str_append_len(str, t, RunLen(t)))
AppendStr(c) == Mutate(ext_str_append_str(str, ext_str_new(c)))
AppendC(c) == Mutate(ext_str_append(str, c))
AppendFmt(c) == Mutate(ext_str_append_vfmt(str, c))
ResizeStr(n) == Mutate(ext_str_resize(str, n))
ResizeZeroedStr(n) == Mutate(ext_str_resize_zeroed(str, n))
ReserveStr(n) == Mutate(ext_str_reserve(str, n))
ShrinkToFitStr == Mutate(ext_str_shrink_to_fit(str))

NextStr ==
    \/ \E c \in SizesAsked : NewWithCap(c)
    \/ \E t \in Texts : NewLen(t)
    \/ \E c \in CStrings : NewStr(c)
    \/ Dup
    \/ \E sep \in CStrings : \E strings \in StringArrays : Join(sep, strings)
    \/ \E start, end \in 0 .. MaxLen : Substr(start, end)
    \/ \E t \in Texts : AppendLen(t)
    \/ \E c \in CStrings : AppendStr(c)
    \/ \E c \in CStrings : AppendC(c)
    \/ \E c \in CStrings : AppendFmt(c)
    \/ \E n \in SizesAsked : ResizeStr(n)
    \/ \E n \in SizesAsked : ResizeZeroedStr(n)
    \/ \E n \in SizesAsked : ReserveStr(n)
    \/ ShrinkToFitStr

SpecStr == Init /\ [][NextStr]_vars

\* ------------------------------------------------------ vocabulary of the claims
Cap(m) == m.capacity_mask + 1
LiveSlots(m) == {i \in DOMAIN m.buckets : m.buckets[i] \notin {EMPTY_MARK, TOMB_MARK}}
TombSlots(m) == {i \in DOMAIN m.buckets : m.buckets[i] = TOMB_MARK}
\* a live slot holds a record with key k
LiveKey(m, k) == \E i \in LiveSlots(m) : m.entries[i].key = k
LiveKeys(m) == {k \in Keys : LiveKey(m, k)}
\* what a caller of ext_map_get sees
GetOf(m, k) == ext_map_get(m, hashfn, Entry(k, 0))
Found(m, k) == GetOf(m, k).out = "ok" /\ GetOf(m, k).found
NotFound(m, k) == GetOf(m, k).out = "ok" /\ ~GetOf(m, k).found
PutOf(m, k, v) == ext_map_put(m, hashfn, Entry(k, v))
EraseOf(m, k) == ext_map_erase(m, hashfn, Entry(k, 0))
\* the calls the client can make in the current state
CanCall == status = "ok"
PutCalls == {kv \in Keys \X {1, 2} : kv[2] \in Payloads(kv[1])}

\* C1: after any sequence of put and erase (and growths) on an allocated
\* table, get returns the record of the last put of every key put and not
\* erased since, and NULL for every other key.
C1_GetReturnsLastPut ==
    (CanCall /\ Allocated(map)) =>
        \A k \in Keys :
            /\ abs[k] # 0 => Found(map, k) /\ GetOf(map, k).rec = Entry(k, abs[k])
            /\ abs[k] = 0 => NotFound(map, k)

\* C2: a put that grows an allocated table doubles the capacity, and every
\* entry live before the growth is returned by get afterwards with the same
\* payload (the key being put excepted: its payload is the new one).
C2_GrowthKeepsEntries ==
    CanCall =>
        \A kv \in PutCalls :
            LET r == PutOf(map, kv[1], kv[2])
            IN  (Allocated(map) /\ CanPut(map) /\ r.grew) =>
                    /\ r.out = "ok"
                    /\ Cap(r.map) = 2 * Cap(map)
                    /\ \A j \in Keys \ {kv[1]} :
                           Found(map, j) =>
                               /\ Found(r.map, j)
                               /\ GetOf(r.map, j).rec = GetOf(map, j).rec

\* C3: ext_map_size equals the number of live slots, which equals the number
\* of keys for which get succeeds.
C3_SizeIsLiveCount ==
    CanCall =>
        /\ ext_map_size(map) = Cardinality(LiveSlots(map))
        /\ Allocated(map) =>
               Cardinality(LiveSlots(map)) = Cardinality({k \in Keys : Found(map, k)})

\* C4: size <= num_entries <= capacity_mask + 1 in every reachable state.
C4_CountOccupiedCapacity ==
    /\ map.size <= map.num_entries
    /\ map.num_entries <= map.capacity_mask + 1

\* C5: get and erase of a key that is not live return not-found (NULL,
\* false) without faulting and leave the table unchanged, in every reachable
\* state, the never-allocated table included.
C5_MissIsOrdinary ==
    CanCall =>
        \A k \in Keys :
            ~LiveKey(map, k) =>
                /\ NotFound(map, k)
                /\ EraseOf(map, k).out = "ok"
                /\ ~EraseOf(map, k).ret
                /\ EraseOf(map, k).map = map

\* C6: put returns true exactly when no live entry with an equal key existed
\* before the call; when one existed the record is overwritten (get returns
\* the new payload) and size is unchanged; otherwise size grows by one.
C6_PutReportsNewKey ==
    CanCall =>
        \A kv \in PutCalls :
            LET k == kv[1]
                r == PutOf(map, k, kv[2])
            IN  CanPut(map) =>
                    /\ r.out = "ok"
                    /\ r.ret <=> ~LiveKey(map, k)
                    /\ Found(r.map, k) /\ GetOf(r.map, k).rec = Entry(k, kv[2])
                    /\ LiveKey(map, k) => r.map.size = map.size
                    /\ ~LiveKey(map, k) => r.map.size = map.size + 1

\* C7: erase returns true exactly when a live entry with an equal key
\* existed; then its slot becomes TOMBSTONE, size decreases by one,
\* num_entries and the capacity are unchanged, every other slot is left as it
\* was, and get of that key returns NULL.
C7_EraseMakesTombstone ==
    CanCall =>
        \A k \in Keys :
            LET r == EraseOf(map, k)
            IN  /\ (r.out = "ok" /\ r.ret) <=> LiveKey(map, k)
                /\ LiveKey(map, k) =>
                       /\ r.idx \in LiveSlots(map)
                       /\ map.entries[r.idx].key = k
                       /\ r.map.buckets[r.idx] = TOMB_MARK
                       /\ r.map.size = map.size - 1
                       /\ r.map.num_entries = map.num_entries
                       /\ r.map.capacity_mask = map.capacity_mask
                       /\ \A j \in DOMAIN map.buckets \ {r.idx} :
                              /\ r.map.buckets[j] = map.buckets[j]
                              /\ r.map.entries[j] = map.entries[j]
                       /\ NotFound(r.map, k)

C7_Witness ==
    /\ CanCall
    /\ \E k \in Keys :
           /\ LiveKey(map, k)
           /\ EraseOf(map, k).ret
           /\ Cardinality(LiveSlots(map)) >= 2
           /\ TombSlots(map) # {}

\* C8: the capacity is 0 before the first put and 8 after it; later a put
\* doubles the capacity exactly when num_entries + 1 exceeds 75% of the
\* capacity, and leaves it unchanged otherwise; the record is written to
\* the arrays the call leaves behind, at the slot where get finds it.
LoadExceeded(m) == 4 * (m.num_entries + 1) > 3 * Cap(m)

Inserted == Cardinality({k \in AllKeys : abs[k] # 0})
InsertCalls == {kv \in InsertKeys \X {1, 2} : kv[2] \in Payloads(kv[1])}

C9_CapacityEightAfterSeven ==
    (fresh /\ Inserted >= 1 /\ Inserted <= 7) => ext_map_capacity(map) = 8

\* C9 amended: it is the 7th insert that grows the table from 8 to 16 slots;
\* the capacity is 8 after each of the first 6 inserts, 16 after the 7th and
\* the 8th, and the 7th record is stored in the grown arrays.
C9_SeventhInsertGrows ==
    fresh =>
        /\ Inserted = 0 => ext_map_capacity(map) = 0
        /\ (1 <= Inserted /\ Inserted <= 6) => ext_map_capacity(map) = 8
        /\ (7 <= Inserted /\ Inserted <= 12) => ext_map_capacity(map) = 16
        /\ Inserted = 6 =>
               \A kv \in InsertCalls :
                   abs[kv[1]] = 0 =>
                       LET r == PutOf(map, kv[1], kv[2])
                       IN  /\ r.out = "ok" /\ r.grew
                           /\ DOMAIN r.map.buckets = 0 .. 15
                           /\ r.map.entries[r.idx] = Entry(kv[1], kv[2])

C9_Witness == fresh /\ Inserted = 7 /\ ext_map_capacity(map) = 16

\* C10: a put (without growth) of a key that is not live, whose probe passes a
\* TOMBSTONE before it reaches an EMPTY slot, stores the record in the first
\* tombstone of the probe sequence; size grows by one, num_entries is
\* unchanged; keys that were not found before are still not found, the key
\* put is found in that slot.
HomeSlot(m, k) == hash_entry(hashfn, Entry(k, 0)) % Cap(m)

\* the first TOMBSTONE on the cyclic path from slot i to the next EMPTY slot,
\* -1 if there is none
RECURSIVE FirstTomb(_, _, _)
FirstTomb(m, i, n) ==
    IF n = 0 \/ m.buckets[i] = EMPTY_MARK THEN -1
    ELSE IF m.buckets[i] = TOMB_MARK THEN i
    ELSE FirstTomb(m, (i + 1) % Cap(m), n - 1)

ReusesTomb(m, k) ==
    /\ Allocated(m)
    /\ ~LoadExceeded(m)
    /\ ~LiveKey(m, k)
    /\ FirstTomb(m, HomeSlot(m, k), Cap(m)) # -1

C10_TombstoneReuse ==
    CanCall =>
        \A kv \in PutCalls :
            LET k == kv[1]
                r == PutOf(map, k, kv[2])
                t == FirstTomb(map, HomeSlot(map, k), Cap(map))
            IN  ReusesTomb(map, k) =>
                    /\ r.out = "ok" /\ r.ret
                    /\ r.idx = t
                    /\ r.map.buckets[t] = hash_entry(hashfn, Entry(k, 0))
                    /\ r.map.entries[t] = Entry(k, kv[2])
                    /\ r.map.size = map.size + 1
                    /\ r.map.num_entries = map.num_entries
                    /\ Found(r.map, k) /\ GetOf(r.map, k).idx = t
                    /\ \A a \in Keys \ {k} : NotFound(map, a) => NotFound(r.map, a)

\* put(A); erase(A); put(B) with B sharing A's home slot: the state after
\* erase(A), where put(B) takes A's former slot
C10_Witness ==
    /\ CanCall
    /\ \E a, b \in Keys :
           /\ a # b
           /\ abs[a] = 0 /\ abs[b] = 0
           /\ HomeSlot(map, a) = HomeSlot(map, b)
           /\ ReusesTomb(map, b)
           /\ map.buckets[HomeSlot(map, b)] = TOMB_MARK
           /\ PutOf(map, b, 1).idx = HomeSlot(map, a)
           /\ NotFound(PutOf(map, b, 1).map, a)

\* the loop for(it = ext_map_begin(m); it != ext_map_end(m); it = ext_map_incr(m, it)):
\* the slots it visits, and whether it ended within n more steps
RECURSIVE IterFrom(_, _, _)
IterFrom(m, it, n) ==
    IF it = ext_map_end(m) THEN [done |-> TRUE, slots |-> << >>]
    ELSE IF n = 0 THEN [done |-> FALSE, slots |-> << >>]
    ELSE LET rest == IterFrom(m, ext_map_incr(m, it), n - 1)
         IN  [done |-> rest.done, slots |-> <<it.idx>> \o rest.slots]
Iteration(m) == IterFrom(m, ext_map_begin(m), ext_map_capacity(m) + 1)

\* C11: iterating from ext_map_begin with ext_map_incr reaches ext_map_end
\* after finitely many steps and returns every live slot exactly once, in
\* strictly increasing slot order, and no EMPTY or TOMBSTONE slot;
\* begin = end exactly when there is no live entry (both NULL on the
\* never-allocated table).
C11_IterationVisitsLiveSlots ==
    CanCall =>
        LET w == Iteration(map)
        IN  /\ w.done
            /\ \A a, b \in DOMAIN w.slots : a < b => w.slots[a] < w.slots[b]
            /\ {w.slots[a] : a \in DOMAIN w.slots} = LiveSlots(map)
            /\ Len(w.slots) = Cardinality(LiveSlots(map))
            /\ (ext_map_begin(map) = ext_map_end(map)) <=> (LiveSlots(map) = {})
            /\ ~Allocated(map) =>
                   ext_map_begin(map) = NullPtr /\ ext_map_end(map) = NullPtr

C11_Witness ==
    /\ CanCall
    /\ Len(Iteration(map).slots) >= 3
    /\ TombSlots(map) # {}
    /\ \E i \in LiveSlots(map) : \E j \in DOMAIN map.buckets :
           i < j /\ map.buckets[j] = EMPTY_MARK /\ (j + 1) \in LiveSlots(map)

\* C12: ext_map_clear sets every slot to EMPTY (tombstones included), sets
\* size and num_entries to 0 and leaves the capacity unchanged; afterwards
\* get of every key returns not-found; clearing twice leaves the same state
\* as clearing once; on a never-allocated table clear changes nothing.
C12_ClearEmptiesTable ==
    CanCall =>
        LET c == ext_map_clear(map)
        IN  /\ \A i \in DOMAIN c.buckets : c.buckets[i] = EMPTY_MARK
            /\ c.size = 0 /\ c.num_entries = 0
            /\ ext_map_capacity(c) = ext_map_capacity(map)
            /\ c.capacity_mask = map.capacity_mask
            /\ \A k \in Keys : NotFound(c, k)
            /\ ext_map_clear(c) = c
            /\ ~Allocated(map) => c = map

EmptySlots(m) == {i \in DOMAIN m.buckets : m.buckets[i] = EMPTY_MARK}

\* C13: at rest the load of an allocated table does not exceed the growth
\* threshold: num_entries <= 75% of the capacity, so at least a quarter of
\* the slots are EMPTY.
C13_LoadAtRest ==
    (CanCall /\ Allocated(map)) =>
        /\ 4 * map.num_entries <= 3 * Cap(map)
        /\ 4 * Cardinality(EmptySlots(map)) >= Cap(map)

\* a table loaded to exactly 75%, with tombstones among the occupied slots
C13_Witness ==
    /\ CanCall /\ Allocated(map) /\ everPut
    /\ 4 * map.num_entries = 3 * Cap(map)
    /\ 4 * Cardinality(EmptySlots(map)) = Cap(map)
    /\ TombSlots(map) # {}

\* the keys whose user hash is a reserved value, the keys whose user hash
\* is a value the reserved ones are moved to, and the hash the claim expects
\* to find cached in the bucket of a record with key k
SentinelKeys == {k \in Keys : UserHash(hashfn, k) \in {EMPTY_MARK, TOMB_MARK}}
PartnerKeys == {k \in Keys : UserHash(hashfn, k) \in {2, 3}}
StoredHash(k) ==
    CASE UserHash(hashfn, k) = 0 -> 2
      [] UserHash(hashfn, k) = 1 -> 3
      [] OTHER -> UserHash(hashfn, k)

C15_PushPopSequence ==
    hist.on =>
        /\ vstatus = "ok"
        /\ ext_vec_size(vec) = hist.pushes - hist.pops
        /\ ext_vec_size(vec) = Len(hist.pushed)
        /\ \A i \in 1 .. Len(hist.pushed) : vec.data[i] = hist.pushed[i]

\* pushes and pops interleaved across two reallocations
C15_Witness ==
    /\ hist.on /\ hist.pushes >= 4 /\ hist.pops >= 1
    /\ ext_vec_size(vec) = 3
    /\ ext_vec_capacity(vec) = 4
    /\ vec.data[1] # vec.data[2]

VecElems(v) ==
    [i \in 1 .. (IF ext_vec_size(v) <= Len(v.data) THEN ext_vec_size(v) ELSE Len(v.data))
        |-> v.data[i]]
\* the reserve amounts a client passes
Amounts == 0 .. MaxVecCap

\* C17: ext_vec_shrink_to_fit followed by ext_vec_reserve(n), for any n,
\* leaves the size and every element in [0, size) unchanged, also when the
\* vector was empty and shrink_to_fit made the handle NULL.
C17_ShrinkReserveRoundTrip ==
    vstatus = "ok" =>
        \A n \in Amounts :
            LET s == ext_vec_shrink_to_fit(vec)
                r == ext_vec_reserve(s.vec, n, n)
            IN  /\ s.out = "ok" /\ r.out = "ok"
                /\ ext_vec_size(r.vec) = ext_vec_size(vec)
                /\ \A i \in DOMAIN VecElems(vec) : r.vec.data[i] = vec.data[i]
                /\ (~vec.null /\ vec.size = 0) => s.vec.null

\* a vector with spare capacity and two different elements: shrink_to_fit
\* reallocates, and so does a reserve of the old capacity
C17_Witness ==
    /\ vstatus = "ok" /\ ~vec.null
    /\ ext_vec_size(vec) = 2 /\ ext_vec_capacity(vec) = 4 /\ Len(vec.data) = 4
    /\ vec.data[1] \in Elems /\ vec.data[2] \in Elems /\ vec.data[1] # vec.data[2]
    /\ ext_vec_shrink_to_fit(vec).vec.capacity = 2
    /\ ext_vec_reserve(ext_vec_shrink_to_fit(vec).vec, 4, 4).vec.capacity = 4

\* C20: ext_vec_insert(vec, i, e) with 0 <= i <= size yields
\* old[0..i) ++ [e] ++ old[i..size): the size grows by one, vec[i] = e, the
\* elements before i are unchanged and each element formerly at j >= i is at
\* j + 1; with i = size it is the same as push_back, also on the NULL vector.
C20_InsertShiftsTail ==
    vstatus = "ok" =>
        \A i \in 0 .. ext_vec_size(vec) : \A e \in Elems :
            LET size == ext_vec_size(vec)
                r    == ext_vec_insert(vec, i, e)
            IN  /\ r.out = "ok"
                /\ ext_vec_size(r.vec) = size + 1
                /\ r.vec.data[i + 1] = e
                /\ \A j \in 0 .. i - 1 : r.vec.data[j + 1] = vec.data[j + 1]
                /\ \A j \in i .. size - 1 : r.vec.data[j + 2] = vec.data[j + 1]
                /\ i = size => r = ext_vec_push_back(vec, e)

\* C18: after every constructor and every mutating operation of the string, in
\* any sequence, the byte at index size is 0.
C18_NulAtSize ==
    (str # NoStr /\ str.out = "ok") => ByteAt(str.data, str.size) = 0

\* the amounts ext_str_maybe_grow is asked for
StrAmounts == SizesAsked

\* C19: in every reachable state of a string capacity >= size + 1, and after
\* ext_str_maybe_grow(amount) the capacity is strictly greater than
\* size + amount, on the doubling path and on the additive path, the size
\* being unchanged.
C19_TerminatorReserved ==
    str # NoStr =>
        /\ str.out = "ok"
        /\ str.capacity >= str.size + 1
        /\ \A amount \in StrAmounts :
              LET g == ext_str_maybe_grow(str, amount)
              IN  /\ g.out = "ok"
                  /\ g.size = str.size
                  /\ g.capacity > str.size + amount
                  /\ g.capacity = RunLen(g.data)

\* a full string above the threshold that an append has grown additively, and
\* that the next one-byte growth takes to capacity + 1
C19_Witness ==
    /\ str.capacity > LOGARITHMIC_GROWTH_TRESH + 1
    /\ str.capacity < 2 * LOGARITHMIC_GROWTH_TRESH
    /\ str.size + 1 = str.capacity
    /\ ext_str_maybe_grow(str, 1).capacity = str.capacity + 1

\* C21: ext_vec_erase(vec, i) with 0 <= i < size yields
\* old[0..i) ++ old[i+1..size) with the size decreased by one and the capacity
\* unchanged; erase(i) immediately after insert(i, e) restores the original
\* element sequence and size.
C21_EraseClosesGap ==
    vstatus = "ok" =>
        LET size == ext_vec_size(vec)
        IN  /\ \A i \in 0 .. size - 1 :
                  LET r == ext_vec_erase(vec, i)
                  IN  /\ r.out = "ok"
                      /\ ext_vec_size(r.vec) = size - 1
                      /\ ext_vec_capacity(r.vec) = ext_vec_capacity(vec)
                      /\ \A j \in 0 .. i - 1 : r.vec.data[j + 1] = vec.data[j + 1]
                      /\ \A j \in i + 1 .. size - 1 : r.vec.data[j] = vec.data[j + 1]
            /\ \A i \in 0 .. size : \A e \in Elems :
                  LET ins == ext_vec_insert(vec, i, e)
                      r   == ext_vec_erase(ins.vec, i)
                  IN  /\ ins.out = "ok" /\ r.out = "ok"
                      /\ ext_vec_size(r.vec) = size
                      /\ \A j \in 0 .. size - 1 : r.vec.data[j + 1] = vec.data[j + 1]

\* ext_vec_reserve(vec, ext_vec_size(vec) + k), the call ext_vec_push_back_all
\* makes (part_002:65): the argument reads the vector each time the macro
\* uses it
ext_vec_reserve_more(v, k, moved, word) ==
    LET amount == ext_vec_size(v) + k
        late   == IF ~v.null /\ moved THEN word + k ELSE amount
    IN  ext_vec_reserve(v, amount, late)

\* what C22 says of a reserve call for n elements that returned r
ReserveContract(n, r) ==
    /\ r.out = "ok"
    /\ ext_vec_size(r.vec) = ext_vec_size(vec)
    /\ \A i \in DOMAIN VecElems(vec) : r.vec.data[i] = vec.data[i]
    /\ ext_vec_capacity(r.vec) >= n
    /\ ext_vec_capacity(vec) >= n => r.vec = vec

\* C22: ext_vec_reserve(vec, n) never changes the size or any element in
\* [0, size); afterwards capacity >= n; and when the current capacity (0 for
\* the NULL handle) is already >= n the call is a no-op: handle, capacity,
\* size and elements are all unchanged.
C22_ReserveFrame ==
    vstatus = "ok" =>
        /\ \A n \in Amounts : ReserveContract(n, ext_vec_reserve(vec, n, n))
        /\ \A k \in 0 .. MaxArr : \A moved \in BOOLEAN : \A word \in FreedWords(vec) :
              ReserveContract(ext_vec_size(vec) + k, ext_vec_reserve_more(vec, k, moved, word))

\* C23: after ext_vec_shrink_to_fit the capacity equals the size and the
\* elements in [0, size) are unchanged; when the size is 0 the allocation is
\* released and the handle becomes NULL; on a NULL vector it is a no-op.
C23_ShrinkToFit ==
    vstatus = "ok" =>
        LET r == ext_vec_shrink_to_fit(vec)
        IN  /\ r.out = "ok"
            /\ ext_vec_capacity(r.vec) = ext_vec_size(r.vec)
            /\ ext_vec_size(r.vec) = ext_vec_size(vec)
            /\ \A i \in DOMAIN VecElems(vec) : r.vec.data[i] = vec.data[i]
            /\ ~r.vec.null => Len(r.vec.data) = ext_vec_size(vec)
            /\ ext_vec_size(vec) = 0 => r.vec = NullVec
            /\ vec.null => r.vec = vec

\* a vector with spare capacity and two different elements, shrunk to a block
\* of two; the same vector once cleared is released by shrink_to_fit
C23_Witness ==
    /\ vstatus = "ok" /\ ~vec.null
    /\ ext_vec_size(vec) = 2 /\ ext_vec_capacity(vec) = 4 /\ Len(vec.data) = 4
    /\ vec.data[1] \in Elems /\ vec.data[2] \in Elems /\ vec.data[1] # vec.data[2]
    /\ ext_vec_shrink_to_fit(vec).vec.data = <<vec.data[1], vec.data[2]>>
    /\ ext_vec_shrink_to_fit(ext_vec_clear(vec).vec).vec.null

\* C24: ext_vec_clear sets the size to 0 and leaves the capacity and the
\* handle (the block and what it holds) unchanged; calling it twice in a row
\* leaves the same state as calling it once; on a NULL vector it is a no-op.
C24_ClearKeepsCapacity ==
    vstatus = "ok" =>
        LET r == ext_vec_clear(vec)
            t == ext_vec_clear(r.vec)
        IN  /\ r.out = "ok" /\ t.out = "ok"
            /\ ext_vec_size(r.vec) = 0
            /\ ext_vec_capacity(r.vec) = ext_vec_capacity(vec)
            /\ r.vec.null = vec.null
            /\ r.vec.data = vec.data
            /\ t.vec = r.vec
            /\ vec.null => r.vec = vec

\* a vector of three elements in a block of four, cleared
C24_Witness ==
    /\ vstatus = "ok" /\ ~vec.null
    /\ ext_vec_size(vec) = 3 /\ ext_vec_capacity(vec) = 4 /\ Len(vec.data) = 4
    /\ ext_vec_clear(vec).vec.size = 0
    /\ ext_vec_clear(vec).vec.capacity = 4

\* C25: ext_vec_push_back_all(vec, arr, n) leaves the vector with the same
\* size and contents as n successive push_back calls would (the old elements
\* followed by arr[0..n) in order), and reserves once: after the initial
\* reserve to size + n the capacity does not change again while the n
\* elements are copied.
C25_PushBackAllIsPushBacks ==
    vstatus = "ok" =>
        \A arr \in Arrays : \A moved \in BOOLEAN : \A word \in FreedWords(vec) :
            LET size     == ext_vec_size(vec)
                r        == ext_vec_push_back_all(vec, arr, moved, word)
                one      == PushLoop(vec, arr, 1)
                reserved == ext_vec_reserve_more(vec, Len(arr), moved, word)
            IN  /\ r.out = "ok" /\ one.out = "ok"
                /\ ext_vec_size(r.vec) = size + Len(arr)
                /\ ext_vec_size(one.vec) = size + Len(arr)
                /\ \A i \in 1 .. size + Len(arr) : r.vec.data[i] = one.vec.data[i]
                /\ \A i \in 1 .. size : r.vec.data[i] = vec.data[i]
                /\ \A i \in 1 .. Len(arr) : r.vec.data[size + i] = arr[i]
                /\ ext_vec_capacity(reserved.vec) >= size + Len(arr)
                /\ ext_vec_capacity(r.vec) = ext_vec_capacity(reserved.vec)
                /\ Len(r.vec.data) = Len(reserved.vec.data)

\* the amounts ext_vec_maybe_grow_ is asked for
GrowAmounts == 0 .. MaxArr + 1
\* the capacities C30 allows after a growth from capacity c: c doubled one or
\* more times, or 1 doubled zero or more times when c is 0
Doublings(c) ==
    IF c # 0 THEN {c * 2 ^ k : k \in 1 .. MaxVecCap}
    ELSE {2 ^ k : k \in 0 .. MaxVecCap}

\* C30: when an operation needs room for amount more elements and
\* size + amount > capacity, the new capacity is the old capacity doubled one
\* or more times (for the empty or NULL vector, 1 doubled zero or more times),
\* namely the smallest such value that is >= size + amount; when
\* size + amount <= capacity the capacity and the handle are unchanged.
C30_GrowthDoubles ==
    vstatus = "ok" =>
        \A amount \in GrowAmounts :
            LET size     == ext_vec_size(vec)
                capacity == ext_vec_capacity(vec)
                g        == ext_vec_maybe_grow_(vec, amount)
                new      == ext_vec_capacity(g.vec)
            IN  /\ g.out = "ok"
                /\ size + amount > capacity =>
                      /\ new \in Doublings(capacity)
                      /\ new >= size + amount
                      /\ \A d \in Doublings(capacity) : d >= size + amount => new <= d
                      /\ Len(g.vec.data) = new
                      /\ ext_vec_size(g.vec) = size
                /\ size + amount <= capacity => g.vec = vec

\* a full vector of two elements: room for one more doubles the capacity
\* once, room for three more doubles it twice
C30_Witness ==
    /\ vstatus = "ok" /\ ~vec.null
    /\ ext_vec_size(vec) = 2 /\ ext_vec_capacity(vec) = 2 /\ Len(vec.data) = 2
    /\ ext_vec_maybe_grow_(vec, 1).vec.capacity = 4
    /\ ext_vec_maybe_grow_(vec, 3).vec.capacity = 8

\* ------------------------------------------- the client of the pure functions
\* the strings of up to MaxText bytes of an alphabet, made with
\* ext_str_new_len
Strings(alphabet) ==
    {ext_str_new_len(FromBytes(bytes), Len(bytes)) :
        bytes \in UNION {[1 .. k -> alphabet] : k \in 0 .. MaxText}}
\* the positions a search is asked to begin from
StartPositions == (0 .. MaxText + 1) \cup {ext_str_npos}

\* two strings are chosen, the first of 'a', 'b' and zero bytes, the second
\* of 'a' and zero bytes; nothing else is constructed. The functions leave
\* their arguments alone or give back a new string, so the client makes one
\* call on the strings it chose, ext_str_join_str following ext_str_split
InitCall ==
    /\ map = ext_map_init
    /\ hashfn = "mixed"
    /\ status = "ok"
    /\ abs = [k \in AllKeys |-> 0]
    /\ fresh = TRUE
    /\ everPut = FALSE
    /\ vec = NullVec
    /\ vstatus = "ok"
    /\ hist = [on |-> TRUE, pushed |-> << >>, pushes |-> 0, pops |-> 0]
    /\ str = NoStr
    /\ iter = NoIter
    /\ \E a \in Strings({0, 97, 98}) : \E b \in Strings({0, 97}) :
           call = [NoCall EXCEPT !.s1 = a, !.s2 = b]

\* ext_str_find_len(s1, start_pos, s2, len) with the first len bytes of s2 as
\* the needle
FindLen(start_pos, len) ==
    /\ call.op = "none"
    /\ len <= ext_str_size(call.s2)
    /\ LET r == ext_str_find_len(call.s1, start_pos, call.s2.data, len)
       IN  call' = [call EXCEPT !.op = "find_len", !.pos = start_pos, !.len = len,
                                !.out = r.out, !.ret = r.ret]
    /\ UNCHANGED nonCallVars

\* ext_str_rfind_len(s1, start_pos, s2, len) with the first len bytes of s2
\* as the needle
RFindLen(start_pos, len) ==
    /\ call.op = "none"
    /\ len <= ext_str_size(call.s2)
    /\ LET r == ext_str_rfind_len(call.s1, start_pos, call.s2.data, len)
       IN  call' = [call EXCEPT !.op = "rfind_len", !.pos = start_pos, !.len = len,
                                !.out = r.out, !.ret = r.ret]
    /\ UNCHANGED nonCallVars

\* ext_str_compare(s1, s2)
CompareStr(mag) ==
    /\ call.op = "none"
    /\ call' = [call EXCEPT !.op = "compare", !.pos = 0, !.len = 0, !.out = "ok",
                            !.ret = ext_str_compare(call.s1, call.s2, mag)]
    /\ UNCHANGED nonCallVars

\* tokens = ext_str_split(s1, sep)
Split(sep) ==
    /\ call.op = "none"
    /\ LET r == ext_str_split(call.s1, sep)
       IN  call' = [call EXCEPT !.op = "split", !.pos = 0, !.len = 0, !.ret = 0,
                                !.sep = sep, !.out = r.out, !.toks = r.vec]
    /\ UNCHANGED nonCallVars

\* s2 = ext_str_join_str(sep, tokens, ext_vec_size(tokens)) with the
\* separator of the split as a string of one character
JoinStr ==
    /\ call.op = "split"
    /\ call.out = "ok"
    /\ call' = [call EXCEPT !.op = "join_str",
                            !.s2 = ext_str_join_str(FromBytes(<<call.sep>>),
                                                    SubSeq(call.toks.data, 1, call.toks.size))]
    /\ UNCHANGED nonCallVars

\* ext_str_append_len(&s1, s2, len): the first len bytes of s2 are appended
\* to s1
AppendData(len) ==
    /\ call.op = "none"
    /\ len <= ext_str_size(call.s2)
    /\ call' = [call EXCEPT !.op = "append_len", !.pos = 0, !.len = len, !.ret = 0,
                            !.out = "ok",
                            !.s1 = ext_str_append_len(call.s1, call.s2.data, len)]
    /\ UNCHANGED nonCallVars

NextCall ==
    \/ \E start_pos \in StartPositions : \E len \in 0 .. MaxText : FindLen(start_pos, len)
    \/ \E start_pos \in StartPositions : \E len \in 0 .. MaxText : RFindLen(start_pos, len)
    \/ \E mag \in {1, 255} : CompareStr(mag)
    \/ \E sep \in {0, 97, 98} : Split(sep)
    \/ JoinStr
    \/ \E len \in 0 .. MaxText : AppendData(len)

SpecCall == InitCall /\ [][NextCall]_vars

\* C26: ext_str_find_len returns the smallest offset at or after start_pos at
\* which the needle occurs wholly inside the string and ext_str_npos exactly
\* when there is none (occ is the set of these offsets); every memcmp it makes
\* stays inside [0, size); and ext_str_npos is no offset of the string
C26_FindLen ==
    \A start_pos \in StartPositions : \A len \in 0 .. ext_str_size(call.s2) :
        LET size == ext_str_size(call.s1)
            r    == ext_str_find_len(call.s1, start_pos, call.s2.data, len)
            occ  == {i \in 0 .. size :
                        /\ i >= start_pos
                        /\ i + len <= size
                        /\ \A j \in 0 .. len - 1 :
                               ByteAt(call.s1.data, i + j) = ByteAt(call.s2.data, j)}
        IN  /\ r.out = "ok"
            /\ (r.ret = ext_str_npos) <=> (occ = {})
            /\ occ # {} => r.ret \in occ /\ \A i \in occ : r.ret <= i
            /\ \A i \in r.cmp : i >= 0 /\ i + len <= size
            /\ ext_str_npos \notin 0 .. size

\* a search that began after an earlier occurrence found the later one
C26_Witness ==
    /\ call.op = "find_len"
    /\ call.out = "ok"
    /\ call.len > 0
    /\ call.pos > 0
    /\ call.ret = call.pos
    /\ ext_str_find_len(call.s1, 0, call.s2.data, call.len).ret < call.ret

\* C27: ext_str_compare returns 0 exactly when the two strings have the same
\* size and the same bytes; when they differ inside the overlapping range the
\* sign is that of the first differing byte, zero bytes before it included;
\* when one is a proper prefix of the other the shorter sorts first; and
\* exchanging the arguments reverses the sign
C27_Compare ==
    \A mag, mag2 \in {1, 255} :
        LET a     == call.s1
            b     == call.s2
            la    == ext_str_size(a)
            lb    == ext_str_size(b)
            r     == ext_str_compare(a, b, mag)
            q     == ext_str_compare(b, a, mag2)
            same  == la = lb /\ \A j \in 0 .. la - 1 : ByteAt(a.data, j) = ByteAt(b.data, j)
            firstDiff(d) ==
                /\ d < la /\ d < lb
                /\ ByteAt(a.data, d) # ByteAt(b.data, d)
                /\ \A j \in 0 .. d - 1 : ByteAt(a.data, j) = ByteAt(b.data, j)
            prefix(n, x, y) == \A j \in 0 .. n - 1 : ByteAt(x.data, j) = ByteAt(y.data, j)
        IN  /\ (r = 0) <=> same
            /\ \A d \in 0 .. la :
                   firstDiff(d) =>
                       IF ByteAt(a.data, d) < ByteAt(b.data, d) THEN r < 0 ELSE r > 0
            /\ la < lb /\ prefix(la, a, b) => r < 0
            /\ la > lb /\ prefix(lb, a, b) => r > 0
            /\ (r < 0) <=> (q > 0)
            /\ (r = 0) <=> (q = 0)

\* two strings that agree on a leading zero byte and differ after it were
\* compared
C27_Witness ==
    /\ call.op = "compare"
    /\ ext_str_size(call.s1) = 2
    /\ ext_str_size(call.s2) = 2
    /\ ByteAt(call.s1.data, 0) = 0
    /\ ByteAt(call.s2.data, 0) = 0
    /\ call.ret < 0

\* the tokens ext_str_split(s, sep) returns are the stretches of s between
\* its sep bytes, in order: one more than there are sep bytes, each a
\* terminated string without sep
SplitsAtSeparators(s, sep) ==
    LET size   == ext_str_size(s)
        r      == ext_str_split(s, sep)
        seps   == {i \in 0 .. size - 1 : ByteAt(s.data, i) = sep}
        nth(k) == IF k = 0 THEN 0 - 1
                  ELSE IF k > Cardinality(seps) THEN size
                  ELSE CHOOSE p \in seps : Cardinality({q \in seps : q < p}) = k - 1
    IN  /\ r.out = "ok"
        /\ ext_vec_size(r.vec) = Cardinality(seps) + 1
        /\ \A k \in 1 .. ext_vec_size(r.vec) :
               LET tok == r.vec.data[k]
               IN  /\ tok.out = "ok"
                   /\ ext_str_size(tok) = nth(k) - nth(k - 1) - 1
                   /\ \A j \in 0 .. ext_str_size(tok) - 1 :
                          /\ ByteAt(tok.data, j) = ByteAt(s.data, nth(k - 1) + 1 + j)
                          /\ ByteAt(tok.data, j) # sep
                   /\ ByteAt(tok.data, ext_str_size(tok)) = 0

\* ext_str_join_str of the tokens of s with the separator as a string of one
\* character is a string with the size and the bytes of s
JoinsBack(s, sep) ==
    LET r == ext_str_split(s, sep)
        j == ext_str_join_str(FromBytes(<<sep>>), SubSeq(r.vec.data, 1, ext_vec_size(r.vec)))
    IN  /\ r.out = "ok"
        /\ j.out = "ok"
        /\ ext_str_size(j) = ext_str_size(s)
        /\ \A i \in 0 .. ext_str_size(s) : ByteAt(j.data, i) = ByteAt(s.data, i)

\* C28: ext_str_split returns (number of sep bytes) + 1 tokens in order, none
\* containing sep, and ext_str_join_str of the tokens with sep gives a
\* string equal to str
C28_SplitJoin ==
    \A sep \in {0, 97, 98} :
        /\ SplitsAtSeparators(call.s1, sep)
        /\ JoinsBack(call.s1, sep)

\* C28 as it holds: the tokens are as stated for every separator byte, and
\* the round trip holds for every separator but the zero byte, which
\* ext_str_join_str reads as the empty string
C28_SplitJoinNonZeroSep ==
    \A sep \in {0, 97, 98} :
        /\ SplitsAtSeparators(call.s1, sep)
        /\ sep # 0 => JoinsBack(call.s1, sep)

\* a string of two adjacent separators was split into three empty tokens
\* and joined back
C28_Witness ==
    /\ call.op = "join_str"
    /\ call.sep # 0
    /\ ext_vec_size(call.toks) = 3
    /\ ext_str_size(call.toks.data[2]) = 0
    /\ ext_str_size(call.s2) = 2
    /\ ext_str_compare(call.s1, call.s2, 1) = 0

\* s with the first len bytes of data appended: the size is the sum, the old
\* bytes are kept, the new ones follow them whatever their value, and the
\* block is the old one when the capacity is unchanged and otherwise the
\* result of a single realloc to the new capacity, written once
AppendedOnce(s, data, len, r) ==
    LET old   == ext_str_size(s)
        block == IF ext_str_capacity(r) = ext_str_capacity(s) THEN s.data
                 ELSE ReallocBytes(s.data, ext_str_capacity(r))
    IN  /\ r.out = "ok"
        /\ ext_str_size(r) = old + len
        /\ \A i \in 0 .. old - 1 : ByteAt(r.data, i) = ByteAt(s.data, i)
        /\ \A i \in 0 .. len - 1 : ByteAt(r.data, old + i) = ByteAt(data, i)
        /\ ext_str_capacity(r) >= ext_str_capacity(s)
        /\ RunLen(r.data) = ext_str_capacity(r)
        /\ \A i \in old + len + 1 .. ext_str_capacity(r) - 1 :
               ByteAt(r.data, i) = ByteAt(block, i)

\* C29: ext_str_append_len leaves the old bytes followed by data[0..len),
\* zero bytes included, with size = old size + len, after at most one
\* reallocation; ext_str_append_str and ext_str_append give what
\* ext_str_append_len gives with the other string's size and with the
\* length up to the first zero byte
C29_AppendLen ==
    LET s     == call.s1
        data  == call.s2.data
        zeros == {i \in 0 .. ext_str_size(call.s2) : ByteAt(data, i) = 0}
        cLen  == CHOOSE i \in zeros : \A k \in zeros : i <= k
    IN  /\ \A len \in 0 .. ext_str_size(call.s2) :
               AppendedOnce(s, data, len, ext_str_append_len(s, data, len))
        /\ AppendedOnce(s, data, ext_str_size(call.s2), ext_str_append_str(s, call.s2))
        /\ ext_str_append_str(s, call.s2) = ext_str_append_len(s, data, ext_str_size(call.s2))
        /\ AppendedOnce(s, data, cLen, ext_str_append(s, data))
        /\ ext_str_append(s, data) = ext_str_append_len(s, data, cLen)

\* bytes with a zero byte before the last of them were appended to a
\* string that had to grow
C29_Witness ==
    /\ call.op = "append_len"
    /\ call.len = 2
    /\ ByteAt(call.s2.data, 0) = 0
    /\ ByteAt(call.s2.data, 1) = 97
    /\ ext_str_size(call.s1) = 2
    /\ ByteAt(call.s1.data, 0) = 0
    /\ ByteAt(call.s1.data, 1) = 97
    /\ ext_str_capacity(call.s1) > 1

\* the keys of the records in live slots, whatever client put them
KeysIn(m) == {m.entries[i].key : i \in LiveSlots(m)}

\* C31: immediately after a growth (map_grow called by a put whose load
\* check asks for it) no slot of the new table is TOMBSTONE, num_entries
\* equals the number of live slots of the new table, and the growth changes
\* neither size nor the set of live keys
C31_GrowthRecounts ==
    (CanCall /\ NeedsGrow(map) /\ CanPut(map)) =>
        LET g == map_grow(map)
        IN  /\ TombSlots(g) = {}
            /\ g.num_entries = Cardinality(LiveSlots(g))
            /\ ext_map_size(g) = ext_map_size(map)
            /\ KeysIn(g) = KeysIn(map)

\* the cached hash of every live slot of m is the remapped hash of the
\* record in the same slot of the entry array
HashesCached(m) ==
    \A i \in LiveSlots(m) : m.buckets[i] = hash_entry(hashfn, m.entries[i])

\* C32: in every reachable state the cached hash of every live slot equals
\* hash_entry of the record stored in the same slot; put (new and replace),
\* erase and clear keep it so, and so does a growth, which moves cached hash
\* and record together
C32_CachedHashMatchesRecord ==
    /\ HashesCached(map)
    /\ CanCall =>
           /\ \A kv \in PutCalls :
                  CanPut(map) /\ PutOf(map, kv[1], kv[2]).out = "ok" =>
                      HashesCached(PutOf(map, kv[1], kv[2]).map)
           /\ \A k \in Keys :
                  Allocated(map) /\ EraseOf(map, k).out = "ok" =>
                      HashesCached(EraseOf(map, k).map)
           /\ HashesCached(ext_map_clear(map))
           /\ NeedsGrow(map) /\ CanPut(map) => HashesCached(map_grow(map))

\* a growth is due that moves the record of key 3, whose user hash 1 is
\* cached as 3, to another slot of the new table
C32_Witness ==
    /\ CanCall
    /\ Allocated(map)
    /\ NeedsGrow(map)
    /\ CanPut(map)
    /\ UserHash(hashfn, 3) = 1
    /\ \E i \in LiveSlots(map) : \E j \in LiveSlots(map_grow(map)) :
           /\ i # j
           /\ map.entries[i].key = 3
           /\ map_grow(map).entries[j] = map.entries[i]
           /\ map_grow(map).buckets[j] = 3

\* c is a power of two, 8 or more, and mask = c - 1 has the form 2^k - 1
PowerOfTwoFrom8(c, mask) ==
    /\ c >= INITIAL_CAPACITY
    /\ \E k \in 3 .. 8 : c = 2 ^ k
    /\ mask = c - 1
    /\ BitAnd(mask, c) = 0

\* C33: ext_map_capacity is 0 until the first put and afterwards a power of
\* two >= 8, and no put, erase or clear returns a table of smaller capacity
\* (get and the iteration take a const map)
C33_CapacityPowerOfTwo ==
    /\ ~everPut => ext_map_capacity(map) = 0
    /\ everPut => PowerOfTwoFrom8(ext_map_capacity(map), map.capacity_mask)
    /\ CanCall =>
           /\ \A kv \in PutCalls :
                  CanPut(map) =>
                      LET r == PutOf(map, kv[1], kv[2])
                      IN  /\ PowerOfTwoFrom8(ext_map_capacity(r.map), r.map.capacity_mask)
                          /\ ext_map_capacity(r.map) >= ext_map_capacity(map)
           /\ \A k \in Keys :
                  ext_map_capacity(EraseOf(map, k).map) = ext_map_capacity(map)
           /\ ext_map_capacity(ext_map_clear(map)) = ext_map_capacity(map)

\* a table that has grown to 16 slots and was emptied again still reports 16
C33_Witness ==
    /\ everPut
    /\ ext_map_capacity(map) = 2 * INITIAL_CAPACITY
    /\ ext_map_size(map) = 0
    /\ status = "ok"

\* the slots find_index visits from the home slot of hash h up to slot i,
\* both included, in the cyclic order of the probe
ProbePath(m, h, i) ==
    LET home == BitAnd(h, m.capacity_mask)
        dist == (i - home + Cap(m)) % Cap(m)
    IN  {BitAnd(home + d, m.capacity_mask) : d \in 0 .. dist}

\* no slot on the probe path of a live slot is EMPTY
ChainsUnbroken(m) ==
    \A i \in LiveSlots(m) :
        \A j \in ProbePath(m, m.buckets[i], i) : ~IS_EMPTY(m.buckets[j])

\* C34: in every reachable state, for every live slot i with cached hash h,
\* no slot on the cyclic probe path from h & capacity_mask up to i is EMPTY,
\* so the probe for that record's key does not stop at an EMPTY slot before
\* it has visited slot i: it returns a live slot on the path that holds the
\* key
C34_ProbeChain ==
    /\ ChainsUnbroken(map)
    /\ CanCall =>
           \A i \in LiveSlots(map) :
               LET r == find_index(map, map.entries[i], map.buckets[i])
               IN  /\ r.out = "ok"
                   /\ r.idx \in ProbePath(map, map.buckets[i], i)
                   /\ IS_VALID(map.buckets[r.idx])
                   /\ Compare(map.entries[r.idx], map.entries[i])

\* a live record lies beyond a tombstone on its probe path, which wraps
\* around the end of the table
C34_Witness ==
    /\ status = "ok"
    /\ \E i \in LiveSlots(map) :
           LET home == BitAnd(map.buckets[i], map.capacity_mask)
           IN  /\ i < home
               /\ \E j \in ProbePath(map, map.buckets[i], i) : IS_TOMB(map.buckets[j])

\* C35: in every reachable state at most one live slot holds a record with
\* any given key, also when the probe for a key passes a tombstone before
\* it reaches the live record of that key: the put then replaces that
\* record and takes no other slot
C35_NoDuplicateKeys ==
    /\ \A i, j \in LiveSlots(map) :
           Compare(map.entries[i], map.entries[j]) => i = j
    /\ CanCall =>
           \A kv \in PutCalls :
               LET r == PutOf(map, kv[1], kv[2])
               IN  (CanPut(map) /\ r.out = "ok") =>
                       \A i, j \in LiveSlots(r.map) :
                           Compare(r.map.entries[i], r.map.entries[j]) => i = j

\* put(A), put(B colliding with A), erase(A): B is live beyond A's
\* tombstone, which lies on B's probe path, and put(B) replaces B's record
\* where it is
C35_Witness ==
    /\ status = "ok"
    /\ \E i \in LiveSlots(map) :
           LET k == map.entries[i].key
               r == PutOf(map, k, 1)
           IN  /\ k \in Keys
               /\ ~NeedsGrow(map)
               /\ \E t \in ProbePath(map, map.buckets[i], i) : IS_TOMB(map.buckets[t])
               /\ r.out = "ok"
               /\ ~r.ret
               /\ r.idx = i

\* C36: whenever find_index runs on an allocated table (from get, from
\* erase, from put after its growth check) the bucket array has an EMPTY
\* slot, and the probe returns within capacity visits
C36_ProbeTerminates ==
    CanCall =>
        /\ Allocated(map) =>
               /\ EmptySlots(map) # {}
               /\ \A k \in InsertKeys :
                      /\ ext_map_get(map, hashfn, Entry(k, 0)).out = "ok"
                      /\ ext_map_erase(map, hashfn, Entry(k, 0)).out = "ok"
        /\ CanPut(map) =>
               /\ EmptySlots(IF NeedsGrow(map) THEN map_grow(map) ELSE map) # {}
               /\ \A k \in InsertKeys : ext_map_put(map, hashfn, Entry(k, 1)).out = "ok"

\* a table most of whose slots are tombstones: two EMPTY slots are left and
\* a probe for a key that is not live passes tombstones before it ends
C36_Witness ==
    /\ status = "ok"
    /\ Allocated(map)
    /\ Cardinality(TombSlots(map)) > Cap(map) \div 2
    /\ \E k \in InsertKeys :
           LET g == ext_map_get(map, hashfn, Entry(k, 0))
           IN  /\ g.out = "ok"
               /\ ~g.found
               /\ IS_TOMB(map.buckets[BitAnd(hash_entry(hashfn, Entry(k, 0)), map.capacity_mask)])

\* the table r.map a put of Entry(k, v) returned differs from m in nothing
\* but the record of the slot that held key k: size, num_entries, capacity,
\* every bucket and every other record are the same, and get returns the
\* same slot for every key
OnlyRecordReplaced(m, r, k, v) ==
    LET i == GetOf(m, k).idx
    IN  /\ r.idx = i
        /\ r.map = [m EXCEPT !.entries[i] = Entry(k, v)]
        /\ \A j \in Keys : Found(m, j) => Found(r.map, j) /\ GetOf(r.map, j).idx = GetOf(m, j).idx

C38_EraseDuringIteration ==
    (iter.on /\ status = "ok") =>
        LET ret  == iter.returned
            seen == {ret[n].idx : n \in 1 .. Len(ret)}
            end  == ext_map_end(map)
            pos  == IF iter.it = end THEN Cap(map) ELSE iter.it.idx
        IN  /\ \A n \in 1 .. Len(ret) : ret[n].valid
            /\ \A n \in 1 .. Len(ret) - 1 : ret[n].idx < ret[n + 1].idx
            /\ \A i \in LiveSlots(map) : i <= pos => i \in seen
            /\ iter.it # end =>
                   LET nx == ext_map_incr(map, iter.it)
                   IN  nx = end \/ (~nx.null /\ nx.idx > iter.it.idx /\ nx.idx <= map.capacity_mask)
            /\ \A k \in 1 .. NumIterKeys :
                   LET r == EraseOf(map, k)
                   IN  Allocated(map) =>
                       /\ r.out = "ok"
                       /\ LiveSlots(r.map) = LiveSlots(map) \ (IF r.ret THEN {r.idx} ELSE {})
                       /\ \A i \in LiveSlots(r.map) :
                              /\ r.map.entries[i] = map.entries[i]
                              /\ r.map.buckets[i] = map.buckets[i]

\* the iteration has reached ext_map_end after the entry the iterator
\* pointed to and an entry ahead of it were erased on the way: two slots
\* were returned, one of them a tombstone now, and one entry is still live
C38_Witness ==
    /\ iter.on
    /\ status = "ok"
    /\ iter.it = ext_map_end(map)
    /\ Len(iter.returned) = 2
    /\ IS_TOMB(map.buckets[iter.returned[1].idx])
    /\ \E i \in TombSlots(map) : i > iter.returned[1].idx /\ i # iter.returned[2].idx
    /\ Cardinality(LiveSlots(map)) = 1

\* the offsets i in [0, size - len] at which the first len bytes of needle
\* occur in s
OccursAt(s, needle, len) ==
    {i \in 0 .. ext_str_size(s) - len :
        \A j \in 0 .. len - 1 : ByteAt(s.data, i + j) = ByteAt(needle, j)}

\* C39: with start_pos = 0, ext_str_rfind_len returns the greatest offset in
\* [0, size - len] at which the needle occurs and ext_str_npos exactly when
\* there is none, len = 0 and size = 0 included, and it reports not-found
\* exactly when ext_str_find_len from offset 0 does
C39_RFindFromEnd ==
    \A len \in 0 .. ext_str_size(call.s2) :
        LET r   == ext_str_rfind_len(call.s1, 0, call.s2.data, len)
            f   == ext_str_find_len(call.s1, 0, call.s2.data, len)
            occ == OccursAt(call.s1, call.s2.data, len)
        IN  /\ r.out = "ok"
            /\ (r.ret = ext_str_npos) <=> (occ = {})
            /\ occ # {} => r.ret \in occ /\ \A i \in occ : i <= r.ret
            /\ (r.ret = ext_str_npos) <=> (f.ret = ext_str_npos)

\* C40: for every str, needle and start_pos, ext_str_rfind_len hands memcmp
\* only ranges [i, i + len) inside [0, size), and an offset it returns is one
\* where the needle occurs and is not greater than size - 1 - start_pos
C40_RFindWithinStart ==
    \A start_pos \in StartPositions : \A len \in 0 .. ext_str_size(call.s2) :
        LET size == ext_str_size(call.s1)
            r    == ext_str_rfind_len(call.s1, start_pos, call.s2.data, len)
        IN  /\ r.out = "ok"
            /\ \A i \in r.cmp : i >= 0 /\ i + len <= size
            /\ r.ret # ext_str_npos =>
                   /\ r.ret \in OccursAt(call.s1, call.s2.data, len)
                   /\ r.ret <= size - 1 - start_pos

====
